---- MODULE Spec2Model ----
(***************************************************************************)
(* Tessrax ledger: receipt writer, Merkle accumulator, key registry,       *)
(* governance token guard, epoch manager and offline verifier.             *)
(*                                                                         *)
(* Strings that the program hashes are modelled as sequences of tokens;    *)
(* SHA-256 and HMAC are modelled as collision-free constructors that wrap  *)
(* their input, so two digests are equal exactly when their inputs are.    *)
(***************************************************************************)
EXTENDS Integers, Sequences, FiniteSets, TLC

(***************************************************************************)
(* Bounds of the model                                                     *)
(***************************************************************************)
MaxEntries == 3
MaxTime == 2
MaxKeyGen == 3
MaxKeyEntries == 2
MaxCounter == 2
Window == 1
TicksPerMilli == 2
MaxVerifyEntries == 3
MaxLockEntries == 1
MaxRepairEntries == 2
MaxWalOffset == 1
MaxLeaves == 7
MaxRestoreEntries == 2
MaxCompactEntries == 3
MaxPairs == 2
MaxBackendRows == 2
MaxScanCount == 2
MaxPersistEntries == 2
MaxTags == 3
MaxTrustedEntries == 3
MaxChosenLeaves == 4

(***************************************************************************)
(* Digests                                                                 *)
(***************************************************************************)
None == <<"null">>
Absent == <<>>

Sha256(data) == <<"sha256(">> \o data \o <<")">>

EMPTY_ROOT == Sha256(<<"TESSRAX|MERKLE|EMPTY">>)

\* mutant: a leaf enters the tree as it is, without the "leaf:" digest
_hash_leaf_Raw(leaf_hash) == leaf_hash

_hash_leaf(leaf_hash) == Sha256(<<"leaf:">> \o leaf_hash)

_hash_node(left, right) == Sha256(<<"node:">> \o left \o <<":">> \o right)

(***************************************************************************)
(* MerkleState                                                             *)
(***************************************************************************)
MerkleEmpty == [entry_count |-> 0, peaks |-> <<>>, last_leaf_hash |-> None]

\* the fold nests to the right: the accumulator is joined to the fold of the rest
RECURSIVE RootFold_Right(_, _, _)
RootFold_Right(accumulator, peaks, i) ==
    IF i > Len(peaks) THEN accumulator
    ELSE _hash_node(accumulator, RootFold_Right(peaks[i], peaks, i + 1))

RECURSIVE RootFold(_, _, _)
RootFold(accumulator, peaks, i) ==
    IF i > Len(peaks) THEN accumulator
    ELSE RootFold(_hash_node(accumulator, peaks[i]), peaks, i + 1)

MerkleRoot(state) ==
    IF Len(state.peaks) = 0 THEN EMPTY_ROOT
    ELSE RootFold(state.peaks[1], state.peaks, 2)

\* the carry stops after one merge
MergePeaks_OneMerge(node, peaks, counter) ==
    IF counter % 2 = 1 /\ Len(peaks) > 0
    THEN Append(SubSeq(peaks, 1, Len(peaks) - 1), _hash_node(peaks[Len(peaks)], node))
    ELSE Append(peaks, node)

RECURSIVE MergePeaks(_, _, _)
MergePeaks(node, peaks, counter) ==
    IF counter % 2 = 1 /\ Len(peaks) > 0
    THEN MergePeaks(_hash_node(peaks[Len(peaks)], node),
                    SubSeq(peaks, 1, Len(peaks) - 1),
                    counter \div 2)
    ELSE Append(peaks, node)

\* mutant: the new state keeps the old last_leaf_hash
ApplyLeaf_KeepsLastLeaf(state, leaf_hash) ==
    [entry_count |-> state.entry_count + 1,
     peaks |-> MergePeaks(_hash_leaf(leaf_hash), state.peaks, state.entry_count),
     last_leaf_hash |-> state.last_leaf_hash]

ApplyLeaf(state, leaf_hash) ==
    [entry_count |-> state.entry_count + 1,
     peaks |-> MergePeaks(_hash_leaf(leaf_hash), state.peaks, state.entry_count),
     last_leaf_hash |-> leaf_hash]

\* mutant: the update reports the root before the leaf was applied
PrepareUpdate_StaleRoot(state, leaf_hash) ==
    LET new_state == ApplyLeaf(state, leaf_hash)
    IN [new_state |-> new_state,
        previous_leaf_hash |-> state.last_leaf_hash,
        new_root |-> MerkleRoot(state)]

PrepareUpdate(state, leaf_hash) ==
    LET new_state == ApplyLeaf(state, leaf_hash)
    IN [new_state |-> new_state,
        previous_leaf_hash |-> state.last_leaf_hash,
        new_root |-> MerkleRoot(new_state)]

(***************************************************************************)
(* Canonical JSON of a flat object: keys in sorted order, absent keys      *)
(* skipped.  Every value is already a token sequence.                      *)
(***************************************************************************)
RECURSIVE JsonObject(_, _, _)
JsonObject(obj, keys, i) ==
    IF i > Len(keys) THEN <<>>
    ELSE (IF obj[keys[i]] = Absent THEN <<>> ELSE <<keys[i]>> \o obj[keys[i]])
         \o JsonObject(obj, keys, i + 1)

canonical_json(obj, keys) == <<"{">> \o JsonObject(obj, keys, 1) \o <<"}">>

canonical_payload_hash(payload) == Sha256(payload)

SignedKeys ==
    <<"audited_state_hash", "auditor", "event_type", "key_id", "payload",
      "payload_hash", "timestamp">>

BodyKeys ==
    <<"audited_state_hash", "auditor", "event_type", "key_id", "payload",
      "payload_hash", "previous_entry_hash", "signature", "timestamp">>

EntryKeys ==
    <<"audited_state_hash", "auditor", "entry_hash", "epoch_id", "event_type",
      "governance_freshness_tag", "key_id", "merkle_root", "payload",
      "payload_hash", "previous_entry_hash", "signature", "timestamp">>

compute_entry_hash(entry) == Sha256(canonical_json(entry, BodyKeys))

(***************************************************************************)
(* Signing (src/nacl): HMAC under the key bytes; the verify key holds the  *)
(* same bytes and recomputes the HMAC.                                     *)
(***************************************************************************)
Sign(key, message) == <<"hmac(">> \o key \o <<"|">> \o message \o <<")">>

VerifyKeyVerify(key, message, signature) == Sign(key, message) = signature

SeedOf(n) == <<"seed", ToString(n)>>

(***************************************************************************)
(* Program constants and inputs                                            *)
(***************************************************************************)
AUDITOR_IDENTITY == <<"Tessrax Governance Kernel v16">>

CANONICAL_EVENT_TYPES == {<<"STATE_AUDITED">>, <<"CONTRADICTION_DETECTED">>}

TimeStr(t) == <<ToString(t)>>

\* audited_state_hash values: <<class, id>>, the class telling length and alphabet.
HashA == <<"hex64", "a">>
HashB == <<"hex32", "b">>
HashOdd == <<"str8", "c">>
HashShort == <<"str7", "d">>

PayloadA == <<"node_id", "0", "status", "VERIFIED">>
PayloadB == <<"node_id", "1", "status", "VERIFIED">>
\* a mapping holding a non-finite float, and a list in place of a mapping
PayloadNaN == <<"score", "nan">>
PayloadList == <<"[", "VERIFIED", "]">>

Inputs ==
    { [event_type |-> <<"STATE_AUDITED">>, payload |-> PayloadA, audited_state_hash |-> HashA],
      [event_type |-> <<"CONTRADICTION_DETECTED">>, payload |-> PayloadB, audited_state_hash |-> HashB],
      [event_type |-> <<"STATE_AUDITED">>, payload |-> PayloadA, audited_state_hash |-> HashOdd],
      [event_type |-> <<"STATE_AUDITED">>, payload |-> PayloadB, audited_state_hash |-> HashShort],
      [event_type |-> <<"STATE_DROPPED">>, payload |-> PayloadB, audited_state_hash |-> HashA],
      [event_type |-> <<"STATE_AUDITED">>, payload |-> PayloadNaN, audited_state_hash |-> HashA],
      [event_type |-> <<"STATE_AUDITED">>, payload |-> PayloadList, audited_state_hash |-> HashA] }

IsMapping(payload) == payload[1] # "["

_verify_inputs(input) ==
    /\ input.event_type \in CANONICAL_EVENT_TYPES
    /\ IsMapping(input.payload)
    /\ input.audited_state_hash[1] \in {"hex64", "hex32", "str8"}

\* normalize_payload succeeds: _normalize_float raises on a non-finite float
NormalizeOk(payload) == \A k \in 1..Len(payload) : payload[k] \notin {"nan", "inf"}

\* mutant: the payload is not normalised before the entry is built
Rejection_NoNormalize(input) ==
    IF input.event_type \notin CANONICAL_EVENT_TYPES THEN "ValueError"
    ELSE IF ~IsMapping(input.payload) THEN "TypeError"
    ELSE IF ~_verify_inputs(input) THEN "ValueError"
    ELSE ""

\* the exception write_receipt raises before it writes anything, "" if none
Rejection(input) ==
    IF input.event_type \notin CANONICAL_EVENT_TYPES THEN "ValueError"
    ELSE IF ~IsMapping(input.payload) THEN "TypeError"
    ELSE IF ~_verify_inputs(input) THEN "ValueError"
    ELSE IF ~NormalizeOk(input.payload) THEN "ValueError"
    ELSE ""

(***************************************************************************)
(* State                                                                   *)
(***************************************************************************)
VARIABLES
    ledger,        \* ledger.jsonl: the sequence of entries, one per line
    index,         \* ledger_index rows in insertion order
    merkleFile,    \* merkle_state.json as MerkleState (empty when no file)
    keyFiles,      \* signing_keys/<key_id>.pem/.pub: key bytes or Absent
    rotation,      \* rotation_state.json
    keysGenerated, \* number of SigningKey.generate() calls so far
    now,           \* the clock
    writers,       \* per writer process: its position in write_receipt and its locals
    original,      \* the ledger as it was before an edit of the file
    edit,          \* the edit made to the ledger file, if any
    epochState,    \* epoch_state.json: next_epoch and the table, in order of first recording
    epochOut,      \* the last record_entry call: its argument, result and the state before
    snapshots,     \* merkle_state-<epoch_id>.json files, in order of writing
    guardState,    \* token_state.json: per token digest, the last use
    guardOut,      \* the last validate call: its arguments, outcome and the state before
    writeOut,      \* the last write_receipt call run alone: its input, outcome and the files before
    lock,          \* the flock on ledger.jsonl: "free" or "held"
    backoff,       \* per writer process: the locals of _acquire_mutex
    repairOut,     \* the last auto_repair or repair_ledger_data call: its outcome and the files before
    walFile,       \* index.wal.jsonl: the payload lines it holds
    appenders,     \* per process: its position in LedgerIndexBackend.append and its entry
    rotateOut,     \* the last rotate_key call: its arguments, outcome and the registry before
    leaves,        \* the leaf hashes applied to the accumulator under study, in order
    snapshotFile,  \* the snapshot file: ledger_lines, merkle_state and index_dump
    restore,       \* restore_snapshot: its position and the artifacts before it started
    compactOut,    \* the last compact call: its argument, output file, report and the files before
    canon,         \* the payload under study and its insertion-order variant
    backends,      \* the sqlite table and the JSON key-value file fed the same calls
    scanOut,       \* the last divergence scan or root cause analysis and what it was given
    stateFile,     \* merkle_state.json as bytes on disk, and the position of the commit writing it
    guardLog       \* over the validate calls so far: the tags returned, the tokens found expired

vars == <<ledger, index, merkleFile, keyFiles, rotation, keysGenerated, now, writers,
          original, edit, epochState, epochOut, snapshots, guardState, guardOut,
          writeOut, lock, backoff, repairOut, walFile, appenders, rotateOut, leaves,
          snapshotFile, restore, compactOut, canon, backends,
          scanOut, stateFile, guardLog>>

ledgerVars == <<ledger, index, merkleFile>>
editVars == <<original, edit>>
epochVars == <<epochState, epochOut, snapshots>>
guardVars == <<guardState, guardOut>>
lockVars == <<lock, backoff>>
walVars == <<walFile, appenders>>
toolVars == <<rotateOut, leaves, snapshotFile, restore, compactOut, canon>>
extraVars == <<backends, scanOut, stateFile, guardLog>>
keyVars == <<keyFiles, rotation, keysGenerated>>

(***************************************************************************)
(* Epoch table (tessrax/ledger/epochal.py)                                 *)
(***************************************************************************)
EpochEmpty == [next_epoch |-> 0, entries |-> <<>>]

EpochHas(state, entry_hash) ==
    \E k \in 1..Len(state.entries) : state.entries[k].entry_hash = entry_hash

\* get_epoch: the recorded epoch_id, or None where the code raises EpochError
get_epoch(state, entry_hash) ==
    IF EpochHas(state, entry_hash)
    THEN LET k == CHOOSE j \in 1..Len(state.entries) : state.entries[j].entry_hash = entry_hash
         IN state.entries[k].epoch_id
    ELSE None

\* len(entry_hash): a digest is 64 hex characters, the class "hex63" is one short
HexLen(entry_hash) == IF entry_hash[1] = "hex63" THEN 63 ELSE 64

\* entry_hash[:16]: a proper prefix, so distinct hashes may share it
Prefix16(entry_hash) == SubSeq(entry_hash, 1, 2)

\* f"EPOCH-{next_epoch:020d}-{entry_hash[:16]}"
EpochId(next_epoch, entry_hash) ==
    <<"EPOCH-", ToString(next_epoch), "-">> \o Prefix16(entry_hash)

EpochResult(state, raised, epoch_id, snapshot) ==
    [state |-> state, raised |-> raised, epoch_id |-> epoch_id, snapshot |-> snapshot]

\* mutant: the counter is not advanced after an assignment
record_entry_NoIncrement(state, entry_hash, timestamp, merkle_state) ==
    IF HexLen(entry_hash) # 64
    THEN EpochResult(state, "EpochError", None, <<>>)
    ELSE IF EpochHas(state, entry_hash)
    THEN EpochResult(state, "", get_epoch(state, entry_hash), <<>>)
    ELSE LET epoch_id == EpochId(state.next_epoch, entry_hash)
         IN EpochResult(
                [next_epoch |-> state.next_epoch,
                 entries |-> Append(state.entries,
                     [entry_hash |-> entry_hash, epoch_id |-> epoch_id,
                      timestamp |-> timestamp, merkle_root |-> MerkleRoot(merkle_state)])],
                "", epoch_id,
                <<[epoch_id |-> epoch_id, merkle_state |-> merkle_state]>>)

\* record_entry: the new table, the exception raised (if any), the epoch_id
\* returned and the snapshot file written (if any)
record_entry(state, entry_hash, timestamp, merkle_state) ==
    IF HexLen(entry_hash) # 64
    THEN EpochResult(state, "EpochError", None, <<>>)
    ELSE IF EpochHas(state, entry_hash)
    THEN EpochResult(state, "", get_epoch(state, entry_hash), <<>>)
    ELSE LET epoch_id == EpochId(state.next_epoch, entry_hash)
         IN EpochResult(
                [next_epoch |-> state.next_epoch + 1,
                 entries |-> Append(state.entries,
                     [entry_hash |-> entry_hash, epoch_id |-> epoch_id,
                      timestamp |-> timestamp, merkle_root |-> MerkleRoot(merkle_state)])],
                "", epoch_id,
                <<[epoch_id |-> epoch_id, merkle_state |-> merkle_state]>>)

(***************************************************************************)
(* Governance token guard (tessrax/governance/token_guard.py)              *)
(* Clock readings are in ticks, TicksPerMilli of them to the millisecond.  *)
(***************************************************************************)
WindowTicks == Window * TicksPerMilli

\* canonical_datetime: the reading truncated to whole milliseconds
canonical_datetime(clock) == (clock \div TicksPerMilli) * TicksPerMilli

GuardTokens == {"tok-a", "tok-b"}

_hash_token(token) == Sha256(<<token>>)

NoRecord == [present |-> FALSE]

GuardEmpty == [digest \in {_hash_token(t) : t \in GuardTokens} |-> NoRecord]

GuardResult(state, raised, tag) == [state |-> state, raised |-> raised, tag |-> tag]

\* mutant: the replay comparison is left out
validate_NoReplayCheck(state, token, ledger_counter, clock) ==
    IF token = ""
    THEN GuardResult(state, "Governance token missing from environment", None)
    ELSE LET digest == _hash_token(token)
             record == state[digest]
             tag == digest \o <<":", ToString(ledger_counter)>>
         IN IF record.present /\ clock - record.last_seen > WindowTicks
            THEN GuardResult(state, "Governance token expired; refresh required", None)
            ELSE GuardResult(
                     [state EXCEPT ![digest] =
                         [present |-> TRUE, last_seen |-> canonical_datetime(clock),
                          last_counter |-> ledger_counter, last_tag |-> tag]],
                     "", tag)

\* mutant: the expiry branch renews last_seen before it raises
validate_RenewsOnExpiry(state, token, ledger_counter, clock) ==
    IF token = ""
    THEN GuardResult(state, "Governance token missing from environment", None)
    ELSE LET digest == _hash_token(token)
             record == state[digest]
             tag == digest \o <<":", ToString(ledger_counter)>>
         IN IF record.present /\ clock - record.last_seen > WindowTicks
            THEN GuardResult([state EXCEPT ![digest].last_seen = canonical_datetime(clock)],
                             "Governance token expired; refresh required", None)
            ELSE IF record.present /\ record.last_counter = ledger_counter
            THEN GuardResult(state, "Governance token replay detected", None)
            ELSE GuardResult(
                     [state EXCEPT ![digest] =
                         [present |-> TRUE, last_seen |-> canonical_datetime(clock),
                          last_counter |-> ledger_counter, last_tag |-> tag]],
                     "", tag)

\* validate: the new state, the GovernanceTokenError message raised (if any)
\* and the tag returned
validate(state, token, ledger_counter, clock) ==
    IF token = ""
    THEN GuardResult(state, "Governance token missing from environment", None)
    ELSE LET digest == _hash_token(token)
             record == state[digest]
             tag == digest \o <<":", ToString(ledger_counter)>>
         IN IF record.present /\ clock - record.last_seen > WindowTicks
            THEN GuardResult(state, "Governance token expired; refresh required", None)
            ELSE IF record.present /\ record.last_counter = ledger_counter
            THEN GuardResult(state, "Governance token replay detected", None)
            ELSE GuardResult(
                     [state EXCEPT ![digest] =
                         [present |-> TRUE, last_seen |-> canonical_datetime(clock),
                          last_counter |-> ledger_counter, last_tag |-> tag]],
                     "", tag)

(***************************************************************************)
(* Key registry (tessrax/infra/key_registry.py)                            *)
(***************************************************************************)
KeyIds == {"alpha", "bravo"}
NoKey == "none"
EnvKeyId == "alpha"
EnvToken == "gov-token"
Tokens == {"gov-token", "wrong"}
MinHoursBetweenRotations == 1
DeprecationWindowHours == 720

\* TESSRAX_REQUIRED_APPROVERS as the multi-approver tests configure it
RequiredApprovers == {"gov-token", "second-approver"}

\* _acquire_mutex: delays in milliseconds, and the attempts bound
InitialDelayMs == 10
MaxDelayMs == 500
AttemptsBound == 10

_read_state_empty ==
    [active_key |-> NoKey,
     keys |-> [k \in KeyIds |-> "none"],
     windows |-> [k \in KeyIds |-> Absent],
     approvals |-> [k \in KeyIds |-> Absent],
     last_rotation |-> -1]

\* the governance gate comparing nothing: every token passes
_require_governance_AnyToken(governance_token, force) ==
    ~(EnvToken # "" /\ governance_token = "" /\ ~force)

_require_governance(governance_token, force) ==
    ~(EnvToken # "" /\ governance_token # EnvToken /\ ~force)

\* the interval check with no minimum: any rotation after the last one passes
IntervalOk_NoMinimum(state, clock, force) ==
    (state.last_rotation # -1 /\ ~force) => clock - state.last_rotation >= 0

\* the minimum-interval check at the head of _promote_new_key
IntervalOk(state, clock, force) ==
    (state.last_rotation # -1 /\ ~force)
        => clock - state.last_rotation >= MinHoursBetweenRotations

\* the registry state after _promote_new_key succeeded
_promote_new_key(state, new_key_id, governance_token, previous_key_id, clock) ==
    LET window == [start |-> clock, end |-> clock + DeprecationWindowHours]
        demoted == IF previous_key_id # NoKey
                   THEN [state.keys EXCEPT ![previous_key_id] = "legacy"]
                   ELSE state.keys
        closing == IF previous_key_id # NoKey
                   THEN [state.windows EXCEPT ![previous_key_id] = window]
                   ELSE state.windows
    IN [active_key |-> new_key_id,
        keys |-> [demoted EXCEPT ![new_key_id] = "active"],
        windows |-> [closing EXCEPT ![new_key_id] = window],
        approvals |-> [state.approvals EXCEPT ![new_key_id] =
                          [approver |-> AUDITOR_IDENTITY,
                           token_digest |-> _hash_token(governance_token)]],
        last_rotation |-> clock]

_persist_material(files, key_id, signing_key) ==
    [files EXCEPT ![key_id] = signing_key]

\* the exception rotate_key raises, in the order of its checks, or "" when none
RotateRaised(governance_token, key_id, force) ==
    IF governance_token = "" THEN "ValueError"
    ELSE IF ~_require_governance(governance_token, force) THEN "PermissionError"
    ELSE IF rotation.keys[key_id] # "none" /\ ~force THEN "FileExistsError"
    ELSE IF ~IntervalOk(rotation, now, force) THEN "RuntimeError"
    ELSE IF rotation.active_key # NoKey /\ keyFiles[rotation.active_key] = Absent
    THEN "FileNotFoundError"
    ELSE ""

RotateOk(governance_token, key_id, force) == RotateRaised(governance_token, key_id, force) = ""

rotate_key(governance_token, new_key_id, force) ==
    LET key_id == IF new_key_id = NoKey THEN EnvKeyId ELSE new_key_id
        signing_key == SeedOf(keysGenerated + 1)
    IN /\ keysGenerated < MaxKeyGen
       /\ IF RotateOk(governance_token, key_id, force)
          THEN /\ keysGenerated' = keysGenerated + 1
               /\ keyFiles' = _persist_material(keyFiles, key_id, signing_key)
               /\ rotation' = _promote_new_key(rotation, key_id, governance_token,
                                                rotation.active_key, now)
          ELSE UNCHANGED keyVars
       /\ UNCHANGED <<ledgerVars, now, writers, editVars, epochVars, guardVars, writeOut, lockVars, repairOut, walVars>>

RotateKey ==
    /\ \E governance_token \in Tokens, new_key_id \in KeyIds \cup {NoKey}, force \in BOOLEAN :
           rotate_key(governance_token, new_key_id, force)
    /\ UNCHANGED <<toolVars, extraVars>>

\* _bootstrap_if_needed: the registry and key files load_active_signing_key leaves
NeedsBootstrap == rotation.active_key = NoKey

BootRotation ==
    IF NeedsBootstrap
    THEN _promote_new_key(rotation, EnvKeyId, EnvToken, NoKey, now)
    ELSE rotation

BootKeyFiles ==
    IF NeedsBootstrap
    THEN _persist_material(keyFiles, EnvKeyId, SeedOf(keysGenerated + 1))
    ELSE keyFiles

BootKeysGenerated == IF NeedsBootstrap THEN keysGenerated + 1 ELSE keysGenerated

(***************************************************************************)
(* Receipt engine (tessrax/core/memory_engine.py)                          *)
(***************************************************************************)
MakeEntry(input, timestamp, key_id, signing_key, state) ==
    LET canonical_event ==
            [event_type |-> input.event_type,
             timestamp |-> TimeStr(timestamp),
             payload |-> input.payload,
             payload_hash |-> canonical_payload_hash(input.payload),
             audited_state_hash |-> input.audited_state_hash,
             auditor |-> AUDITOR_IDENTITY,
             key_id |-> <<key_id>>]
        signature == Sign(signing_key, canonical_json(canonical_event, SignedKeys))
        ledger_body ==
            [event_type |-> canonical_event.event_type,
             timestamp |-> canonical_event.timestamp,
             payload |-> canonical_event.payload,
             payload_hash |-> canonical_event.payload_hash,
             audited_state_hash |-> canonical_event.audited_state_hash,
             auditor |-> canonical_event.auditor,
             key_id |-> canonical_event.key_id,
             signature |-> signature,
             previous_entry_hash |-> state.last_leaf_hash]
        entry_hash == Sha256(canonical_json(ledger_body, BodyKeys))
        merkle_update == PrepareUpdate(state, entry_hash)
    IN [event_type |-> ledger_body.event_type,
        timestamp |-> ledger_body.timestamp,
        payload |-> ledger_body.payload,
        payload_hash |-> ledger_body.payload_hash,
        audited_state_hash |-> ledger_body.audited_state_hash,
        auditor |-> ledger_body.auditor,
        key_id |-> ledger_body.key_id,
        signature |-> signature,
        previous_entry_hash |-> ledger_body.previous_entry_hash,
        entry_hash |-> entry_hash,
        merkle_root |-> merkle_update.new_root,
        epoch_id |-> Absent,
        governance_freshness_tag |-> Absent]

LineLen(entry) == Len(canonical_json(entry, EntryKeys)) + 1

RECURSIVE FileSize(_, _)
FileSize(lines, i) ==
    IF i > Len(lines) THEN 0 ELSE LineLen(lines[i]) + FileSize(lines, i + 1)

\* the byte offset _append_to_ledger returns: the end of the file before the write
_append_offset(lines) == FileSize(lines, 1)

IndexRow(offset, entry) ==
    [ledger_offset |-> offset,
     event_type |-> entry.event_type,
     state_hash |-> entry.audited_state_hash,
     payload_hash |-> entry.payload_hash,
     timestamp |-> entry.timestamp,
     merkle_root |-> entry.merkle_root,
     entry_hash |-> entry.entry_hash,
     previous_entry_hash |-> entry.previous_entry_hash]

\* INSERT OR IGNORE under UNIQUE(ledger_offset) and UNIQUE(state_hash, payload_hash)
_append_to_index(rows, row) ==
    IF \E k \in 1..Len(rows) :
           \/ rows[k].ledger_offset = row.ledger_offset
           \/ (rows[k].state_hash = row.state_hash /\ rows[k].payload_hash = row.payload_hash)
    THEN rows
    ELSE Append(rows, row)

write_receipt(input) ==
    /\ Len(ledger) < MaxEntries
    /\ writeOut' = [called |-> TRUE, input |-> input, raised |-> Rejection(input),
                     before |-> <<ledger, index, merkleFile>>]
    /\ IF Rejection(input) = ""
       THEN LET key_id == BootRotation.active_key
                entry == MakeEntry(input, now, key_id, BootKeyFiles[key_id], merkleFile)
                offset == _append_offset(ledger)
            IN /\ rotation' = BootRotation
               /\ keyFiles' = BootKeyFiles
               /\ keysGenerated' = BootKeysGenerated
               /\ ledger' = Append(ledger, entry)
               /\ index' = _append_to_index(index, IndexRow(offset, entry))
               /\ merkleFile' = PrepareUpdate(merkleFile, entry.entry_hash).new_state
       ELSE UNCHANGED <<ledgerVars, keyVars>>
    /\ UNCHANGED <<now, writers, editVars, epochVars, guardVars, lockVars, repairOut, walVars, toolVars,
                   extraVars>>

WriteReceipt == \E input \in Inputs : write_receipt(input)

Tick ==
    /\ now < MaxTime
    /\ now' = now + 1
    /\ UNCHANGED <<ledgerVars, keyVars, writers, editVars, epochVars, guardVars, writeOut, lockVars, repairOut, walVars, toolVars,
                   extraVars>>

(***************************************************************************)
(* Verifier (tessrax/ledger/verify_ledger.py)                              *)
(***************************************************************************)
IsStr(value) == value # Absent /\ value # None

TimeValues == 0..(MaxTime + 1)

\* datetime.fromisoformat(...).timestamp(); -1 where it raises ValueError
ParseTime(value) ==
    IF \E t \in TimeValues : TimeStr(t) = value
    THEN CHOOSE t \in TimeValues : TimeStr(t) = value
    ELSE -1

_load_verify_keys(files) == {k \in KeyIds : files[k] # Absent}

RequiredFields ==
    <<"event_type", "timestamp", "payload", "payload_hash", "audited_state_hash",
      "signature", "epoch_id", "governance_freshness_tag", "entry_hash", "merkle_root">>

ModelRequired ==
    <<"event_type", "timestamp", "payload_hash", "audited_state_hash", "key_id",
      "signature", "entry_hash", "merkle_root">>

Failure(kind, reason) == [kind |-> kind, reason |-> reason]
Passed == Failure("", "")

LVE == "LedgerVerificationError"

\* the first check of _verify_signature that fails on the record, or Passed
_verify_signature(record, files) ==
    IF record.key_id[1] \notin _load_verify_keys(files)
    THEN Failure(LVE, "Unknown key_id")
    ELSE IF ~IsStr(record.signature)
    THEN Failure(LVE, "Missing signature")
    ELSE IF ~VerifyKeyVerify(files[record.key_id[1]],
                             canonical_json(record, SignedKeys), record.signature)
    THEN Failure("ValueError", "Signature verification failed")
    ELSE Passed

\* mutant: the comparison is skipped while no entry has been read yet
ChainBroken_SkipsFirstLine(entry, prev_entry_hash) ==
    /\ prev_entry_hash # None
    /\ (IF entry.previous_entry_hash = Absent THEN None ELSE entry.previous_entry_hash)
           # prev_entry_hash

ChainBroken(entry, prev_entry_hash) ==
    (IF entry.previous_entry_hash = Absent THEN None ELSE entry.previous_entry_hash)
        # prev_entry_hash

EpochMismatch(entry, epochs) ==
    LET recorded_epoch == get_epoch(epochs, entry.entry_hash)
    IN recorded_epoch # None /\ recorded_epoch # entry.epoch_id

\* a line json.loads cannot parse
NotJsonLine == [k \in {EntryKeys[i] : i \in 1..Len(EntryKeys)} |-> <<"#not-json">>]

\* the checks _read_ledger makes on one line, in the order it makes them
LineFailure(entry, prev_ts, prev_entry_hash, merkle_state, files, epochs) ==
    IF entry = NotJsonLine
    THEN Failure(LVE, "Corrupted JSON")
    ELSE IF \E k \in 1..Len(RequiredFields) : entry[RequiredFields[k]] = Absent
    THEN Failure(LVE, "Missing field")
    ELSE IF entry.key_id = Absent
    THEN Failure("ValueError", "Missing receipt field")
    ELSE IF \E k \in 1..Len(ModelRequired) : ~IsStr(entry[ModelRequired[k]])
    THEN Failure("TypeError", "Field must be a string")
    ELSE IF entry.event_type \notin CANONICAL_EVENT_TYPES
    THEN Failure(LVE, "Unknown event_type")
    ELSE IF entry.audited_state_hash[1] \notin {"hex32", "hex64"}
    THEN Failure(LVE, "Invalid audited_state_hash")
    ELSE IF ParseTime(entry.timestamp) = -1
    THEN Failure(LVE, "Timestamp must be ISO-8601 or numeric")
    ELSE IF canonical_payload_hash(entry.payload) # entry.payload_hash
    THEN Failure(LVE, "Payload hash mismatch")
    ELSE IF prev_ts # -1 /\ ParseTime(entry.timestamp) < prev_ts
    THEN Failure(LVE, "Timestamp regression")
    ELSE IF _load_verify_keys(files) = {}
    THEN Failure(LVE, "No Ed25519 verification keys found.")
    ELSE IF _verify_signature(entry, files) # Passed
    THEN _verify_signature(entry, files)
    ELSE IF compute_entry_hash(entry) # entry.entry_hash
    THEN Failure(LVE, "Entry hash mismatch")
    ELSE IF ChainBroken(entry, prev_entry_hash)
    THEN Failure(LVE, "previous_entry_hash mismatch")
    ELSE IF entry.merkle_root # MerkleRoot(ApplyLeaf(merkle_state, entry.entry_hash))
    THEN Failure(LVE, "merkle_root mismatch")
    ELSE IF ~IsStr(entry.epoch_id)
    THEN Failure(LVE, "epoch_id must be a string")
    ELSE IF EpochMismatch(entry, epochs)
    THEN Failure(LVE, "epoch_id mismatch")
    ELSE Passed

Verdict(failure, stage, line, merkle_state) ==
    [ok |-> failure = Passed, kind |-> failure.kind, reason |-> failure.reason,
     stage |-> stage, line |-> line, merkle_state |-> merkle_state]

RECURSIVE _read_ledger(_, _, _, _, _, _, _)
_read_ledger(lines, i, prev_ts, prev_entry_hash, merkle_state, files, epochs) ==
    IF i > Len(lines) THEN Verdict(Passed, 1, 0, merkle_state)
    ELSE LET failure == LineFailure(lines[i], prev_ts, prev_entry_hash,
                                    merkle_state, files, epochs)
         IN IF failure # Passed THEN Verdict(failure, 1, i, merkle_state)
            ELSE _read_ledger(lines, i + 1, ParseTime(lines[i].timestamp),
                              lines[i].entry_hash,
                              ApplyLeaf(merkle_state, lines[i].entry_hash),
                              files, epochs)

\* SELECT ... ORDER BY ledger_offset (offsets are unique)
RECURSIVE _fetch_index_rows(_)
_fetch_index_rows(rows) ==
    IF Len(rows) = 0 THEN <<>>
    ELSE LET k == CHOOSE j \in 1..Len(rows) :
                      \A m \in 1..Len(rows) : rows[j].ledger_offset <= rows[m].ledger_offset
         IN <<rows[k]>> \o _fetch_index_rows(SubSeq(rows, 1, k - 1) \o SubSeq(rows, k + 1, Len(rows)))

RowMatches(record, row) ==
    /\ record.event_type = row.event_type
    /\ record.audited_state_hash = row.state_hash
    /\ record.payload_hash = row.payload_hash
    /\ record.entry_hash = row.entry_hash
    /\ record.merkle_root = row.merkle_root
    /\ (IF record.previous_entry_hash = Absent THEN None ELSE record.previous_entry_hash)
           = row.previous_entry_hash

\* the first failing row of _compare_index (0-based, as reported), or -1; -2 for a length mismatch
_compare_index(records, rows) ==
    LET index_rows == _fetch_index_rows(rows)
    IN IF Len(index_rows) # Len(records) THEN -2
       ELSE IF \E k \in 1..Len(records) : ~RowMatches(records[k], index_rows[k])
       THEN (CHOOSE k \in 1..Len(records) :
                 /\ ~RowMatches(records[k], index_rows[k])
                 /\ \A j \in 1..(k - 1) : RowMatches(records[j], index_rows[j])) - 1
       ELSE -1

_verify_merkle_state(persisted, observed) ==
    IF persisted.entry_count # observed.entry_count
    THEN Failure(LVE, "Merkle entry count mismatch")
    ELSE IF MerkleRoot(persisted) # MerkleRoot(observed)
    THEN Failure(LVE, "Merkle root mismatch")
    ELSE Passed

\* mutant: all three stages run and the last failure is the one reported
verify_ledger_RunsAllStages(lines, rows, persisted, files, epochs) ==
    LET stage1 == _read_ledger(lines, 1, -1, None, MerkleEmpty, files, epochs)
        parity == _compare_index(lines, rows)
        stage3 == _verify_merkle_state(persisted, stage1.merkle_state)
    IN IF stage3 # Passed THEN Verdict(stage3, 3, 0, stage1.merkle_state)
       ELSE IF parity = -2
       THEN Verdict(Failure(LVE, "Index/ledger length mismatch"), 2, 0, stage1.merkle_state)
       ELSE IF parity # -1
       THEN Verdict(Failure(LVE, "Index mismatch"), 2, parity, stage1.merkle_state)
       ELSE stage1

verify_ledger(lines, rows, persisted, files, epochs) ==
    LET stage1 == _read_ledger(lines, 1, -1, None, MerkleEmpty, files, epochs)
        parity == _compare_index(lines, rows)
        stage3 == _verify_merkle_state(persisted, stage1.merkle_state)
    IN IF ~stage1.ok THEN stage1
       ELSE IF parity = -2
       THEN Verdict(Failure(LVE, "Index/ledger length mismatch"), 2, 0, stage1.merkle_state)
       ELSE IF parity # -1
       THEN Verdict(Failure(LVE, "Index mismatch"), 2, parity, stage1.merkle_state)
       ELSE Verdict(stage3, 3, 0, stage1.merkle_state)

Writers == {1, 2}

NoEdit == [kind |-> "none", line |-> 0, other |-> 0, field |-> ""]

NoCall == [called |-> FALSE]

\* no merkle_state.json yet and no commit under way
NoStateFile == [content |-> "absent", state |-> MerkleEmpty, pc |-> "idle"]

\* no validate call yet
NoGuardLog == [tags |-> <<>>, expired |-> {}, was_expired |-> FALSE, state_kept |-> TRUE]

\* _acquire_mutex before its first flock call: attempts = 0, delay = 0.01 s
NoBackoff == [attempts |-> 0, delay |-> InitialDelayMs]

\* nothing has been called and no snapshot exists
InitTools ==
    /\ rotateOut = NoCall
    /\ leaves = <<>>
    /\ snapshotFile = Absent
    /\ restore = [pc |-> "idle"]
    /\ compactOut = NoCall
    /\ canon = Absent
    /\ backends = [sqlite |-> <<>>, rocksdb |-> <<>>]
    /\ scanOut = NoCall
    /\ stateFile = NoStateFile
    /\ guardLog = NoGuardLog

InitLedger ==
    /\ ledger = <<>>
    /\ index = <<>>
    /\ merkleFile = MerkleEmpty

InitKeys ==
    /\ keyFiles = [k \in KeyIds |-> Absent]
    /\ rotation = _read_state_empty
    /\ keysGenerated = 0

InitRest ==
    /\ writers = [w \in Writers |-> [pc |-> "idle"]]
    /\ original = <<>>
    /\ edit = NoEdit
    /\ epochState = EpochEmpty
    /\ epochOut = NoCall
    /\ snapshots = <<>>
    /\ guardState = GuardEmpty
    /\ guardOut = NoCall
    /\ writeOut = NoCall
    /\ lock = "free"
    /\ backoff = [w \in Writers |-> NoBackoff]
    /\ repairOut = NoCall
    /\ walFile = <<>>
    /\ appenders = [w \in Writers |-> [pc |-> "idle"]]
    /\ InitTools

Init ==
    /\ InitLedger
    /\ InitKeys
    /\ now = 0
    /\ InitRest

Next == WriteReceipt \/ Tick

Spec == Init /\ [][Next]_vars

(***************************************************************************)
(* Properties of the log after sequential writes                           *)
(***************************************************************************)
ChainIntact(lines) ==
    \A i \in 1..Len(lines) :
        lines[i].previous_entry_hash = (IF i = 1 THEN None ELSE lines[i - 1].entry_hash)

RECURSIVE Replay(_, _)
Replay(lines, n) ==
    IF n = 0 THEN MerkleEmpty ELSE ApplyLeaf(Replay(lines, n - 1), lines[n].entry_hash)

RootsReplay(lines) ==
    \A i \in 1..Len(lines) : MerkleRoot(Replay(lines, i)) = lines[i].merkle_root

\* C1: after any sequence of successful sequential write_receipt calls from the
\* empty ledger, the first entry's previous_entry_hash is null and every later
\* entry's previous_entry_hash is the entry_hash of the entry just before it.
C1_ChainIntact == ChainIntact(ledger)

C1_Witness == Len(ledger) >= 3 /\ ledger[3].previous_entry_hash = ledger[2].entry_hash

\* C2: replaying the entries' entry_hash values in log order on a fresh
\* accumulator gives each entry's merkle_root at its step, and the final
\* accumulator has the entry_count and root of the persisted merkle state.
C2_ReplayMatches ==
    /\ RootsReplay(ledger)
    /\ Replay(ledger, Len(ledger)).entry_count = merkleFile.entry_count
    /\ MerkleRoot(Replay(ledger, Len(ledger))) = MerkleRoot(merkleFile)

C2_Witness == Len(ledger) >= 3 /\ merkleFile.entry_count = 3 /\ Len(merkleFile.peaks) = 2

\* C3: after any sequence of receipts accepted by write_receipt on an empty
\* ledger, verify_ledger succeeds at all three stages.
C3_VerifyPasses == verify_ledger(ledger, index, merkleFile, keyFiles, epochState).ok

\* C5: after every successful write_receipt the index holds one row per log
\* entry and row k matches log entry k, also when receipts repeat the same
\* audited_state_hash and payload.
C5_IndexParity ==
    /\ Len(index) = Len(ledger)
    /\ \A k \in 1..Len(ledger) : RowMatches(ledger[k], _fetch_index_rows(index)[k])

(***************************************************************************)
(* Writes interleaved with key rotations                                   *)
(***************************************************************************)
WriteUnderRotation == Len(ledger) < MaxKeyEntries /\ WriteReceipt

NextKeys == WriteUnderRotation \/ RotateKey \/ Tick

SpecKeys == Init /\ [][NextKeys]_vars

\* C8: after any sequence of rotate_key calls, every receipt written before a
\* rotation still verifies: the key material stored under the key_id that
\* signed it is still present and unchanged.
C8_PriorReceiptsVerify ==
    \A i \in 1..Len(ledger) : _verify_signature(ledger[i], keyFiles) = Passed

(***************************************************************************)
(* Two writer processes running write_receipt step by step.  The steps are *)
(* the points where write_receipt touches a shared file: the read of the   *)
(* merkle state (with everything computed from it), the locked append to   *)
(* the log, the index insert and the merkle commit.                        *)
(***************************************************************************)
ValidInputs == {input \in Inputs : Rejection(input) = ""}

InFlight == Cardinality({w \in Writers : writers[w].pc = "prepared"})

\* lines 195-227: inputs checked, key loaded, accumulator read, entry built
Prepare(w) ==
    /\ writers[w].pc = "idle"
    /\ Len(ledger) + InFlight < MaxEntries
    /\ \E input \in ValidInputs :
           LET key_id == BootRotation.active_key
               entry == MakeEntry(input, now, key_id, BootKeyFiles[key_id], merkleFile)
           IN writers' = [writers EXCEPT ![w] =
                  [pc |-> "prepared", entry |-> entry,
                   new_state |-> PrepareUpdate(merkleFile, entry.entry_hash).new_state]]
    /\ rotation' = BootRotation
    /\ keyFiles' = BootKeyFiles
    /\ keysGenerated' = BootKeysGenerated
    /\ UNCHANGED <<ledgerVars, now, editVars, epochVars, guardVars, writeOut, lockVars, repairOut, walVars, toolVars,
                   extraVars>>

\* line 228: _append_to_ledger, the whole append under the file lock
AppendLine(w) ==
    /\ writers[w].pc = "prepared"
    /\ ledger' = Append(ledger, writers[w].entry)
    /\ writers' = [writers EXCEPT ![w] =
           [pc |-> "appended", entry |-> writers[w].entry,
            new_state |-> writers[w].new_state, offset |-> _append_offset(ledger)]]
    /\ backoff' = [backoff EXCEPT ![w] = NoBackoff]
    /\ UNCHANGED <<index, merkleFile, keyVars, now, editVars, epochVars, guardVars, writeOut, lock, repairOut, walVars, toolVars,
                   extraVars>>

\* lines 229-238: _append_to_index
InsertRow(w) ==
    /\ writers[w].pc = "appended"
    /\ index' = _append_to_index(index, IndexRow(writers[w].offset, writers[w].entry))
    /\ writers' = [writers EXCEPT ![w] =
           [pc |-> "indexed", new_state |-> writers[w].new_state]]
    /\ UNCHANGED <<ledger, merkleFile, keyVars, now, editVars, epochVars, guardVars, writeOut, lockVars, repairOut, walVars, toolVars,
                   extraVars>>

\* mutant: the merkle commit runs before the index insert
Commit_BeforeIndex(w) ==
    /\ writers[w].pc = "appended"
    /\ merkleFile' = writers[w].new_state
    /\ writers' = [writers EXCEPT ![w] = [pc |-> "idle"]]
    /\ UNCHANGED <<ledger, index, keyVars, now, editVars, epochVars, guardVars, writeOut, lockVars, repairOut, walVars, toolVars,
                   extraVars>>

\* line 239: merkle_accumulator.commit
Commit(w) ==
    /\ writers[w].pc = "indexed"
    /\ merkleFile' = writers[w].new_state
    /\ writers' = [writers EXCEPT ![w] = [pc |-> "idle"]]
    /\ UNCHANGED <<ledger, index, keyVars, now, editVars, epochVars, guardVars, writeOut, lockVars, repairOut, walVars, toolVars,
                   extraVars>>

NextConcurrent ==
    \E w \in Writers : Prepare(w) \/ AppendLine(w) \/ InsertRow(w) \/ Commit(w)

SpecConcurrent == Init /\ [][NextConcurrent]_vars

Quiescent == \A w \in Writers : writers[w].pc = "idle"

\* C4: when two write_receipt calls run concurrently, in every interleaving the
\* resulting log has an unbroken previous_entry_hash chain, per-entry
\* merkle_root values that match a replay of the log, and a persisted merkle
\* entry_count equal to the number of log entries.
C4_ConcurrentWritesConsistent ==
    Quiescent =>
        /\ ChainIntact(ledger)
        /\ RootsReplay(ledger)
        /\ merkleFile.entry_count = Len(ledger)

(***************************************************************************)
(* Edits of a log that verifies.  The verifier reads whatever the files    *)
(* hold, so the start is any log in the format _read_ledger accepts: the   *)
(* entries write_receipt builds, each carrying an epoch_id and a           *)
(* governance_freshness_tag, with the index, merkle state, keys and epoch  *)
(* table that go with them.                                                *)
(***************************************************************************)
VerifierInputs ==
    << [event_type |-> <<"STATE_AUDITED">>, payload |-> PayloadA, audited_state_hash |-> HashA],
       [event_type |-> <<"CONTRADICTION_DETECTED">>, payload |-> PayloadB, audited_state_hash |-> HashB],
       [event_type |-> <<"STATE_AUDITED">>, payload |-> PayloadB, audited_state_hash |-> HashA],
       [event_type |-> <<"CONTRADICTION_DETECTED">>, payload |-> PayloadA, audited_state_hash |-> HashB],
       [event_type |-> <<"STATE_AUDITED">>, payload |-> PayloadA, audited_state_hash |-> HashB] >>

\* the log whose k-th entry is built from VerifierInputs[k] at time times[k]
RECURSIVE AcceptedLog(_, _)
AcceptedLog(times, n) ==
    IF n = 0 THEN <<>>
    ELSE LET prefix == AcceptedLog(times, n - 1)
             built == MakeEntry(VerifierInputs[n], times[n], EnvKeyId, SeedOf(1),
                                Replay(prefix, n - 1))
         IN Append(prefix,
                [built EXCEPT
                    !.epoch_id = EpochId(n - 1, built.entry_hash),
                    !.governance_freshness_tag =
                        validate(GuardEmpty, "tok-a", n, 0).tag])

AcceptedIndex(lines) ==
    [k \in 1..Len(lines) |-> IndexRow(_append_offset(SubSeq(lines, 1, k - 1)), lines[k])]

RECURSIVE AcceptedEpochs(_, _)
AcceptedEpochs(lines, n) ==
    IF n = 0 THEN EpochEmpty
    ELSE record_entry(AcceptedEpochs(lines, n - 1), lines[n].entry_hash,
                      lines[n].timestamp, Replay(lines, n)).state

TimeSeqs(n) ==
    {times \in [1..n -> 0..MaxTime] : \A k \in 1..(n - 1) : times[k] <= times[k + 1]}

InitVerify ==
    /\ \E n \in 2..MaxVerifyEntries : \E times \in TimeSeqs(n) :
           /\ ledger = AcceptedLog(times, n)
           /\ original = ledger
           /\ index = AcceptedIndex(ledger)
           /\ merkleFile = Replay(ledger, n)
           /\ epochState \in {EpochEmpty, AcceptedEpochs(ledger, n)}
    /\ keyFiles = [k \in KeyIds |-> SeedOf(IF k = EnvKeyId THEN 1 ELSE 2)]
    /\ rotation = _read_state_empty
    /\ keysGenerated = 2
    /\ now = MaxTime
    /\ writers = [w \in Writers |-> [pc |-> "idle"]]
    /\ edit = NoEdit
    /\ epochOut = NoCall
    /\ snapshots = <<>>
    /\ guardState = GuardEmpty
    /\ guardOut = NoCall
    /\ writeOut = NoCall
    /\ lock = "free"
    /\ backoff = [w \in Writers |-> NoBackoff]
    /\ repairOut = NoCall
    /\ walFile = <<>>
    /\ appenders = [w \in Writers |-> [pc |-> "idle"]]
    /\ InitTools

TamperValues(lines, field) ==
    {<<"tampered">>} \cup {lines[k][field] : k \in 1..Len(lines)}

\* one field of one line of the file is given another value
TamperField ==
    /\ edit = NoEdit
    /\ \E i \in 1..Len(ledger) : \E k \in 1..Len(EntryKeys) :
         \E value \in TamperValues(ledger, EntryKeys[k]) :
           /\ value # ledger[i][EntryKeys[k]]
           /\ value # Absent
           /\ ledger' = [ledger EXCEPT ![i] = [@ EXCEPT ![EntryKeys[k]] = value]]
           /\ edit' = [kind |-> "field", line |-> i, other |-> 0, field |-> EntryKeys[k]]
    /\ UNCHANGED <<original, index, merkleFile, keyVars, now, writers, epochVars, guardVars, writeOut, lockVars, repairOut, walVars, toolVars,
                   extraVars>>

\* two lines of the file change places
SwapEntries ==
    /\ edit = NoEdit
    /\ \E i \in 1..Len(ledger) : \E j \in (i + 1)..Len(ledger) :
           /\ ledger' = [ledger EXCEPT ![i] = ledger[j], ![j] = ledger[i]]
           /\ edit' = [kind |-> "swap", line |-> i, other |-> j, field |-> ""]
    /\ UNCHANGED <<original, index, merkleFile, keyVars, now, writers, epochVars, guardVars, writeOut, lockVars, repairOut, walVars, toolVars,
                   extraVars>>

\* a line loses a field, has a field set to null, or stops being JSON
CorruptLine ==
    /\ edit = NoEdit
    /\ \E i \in 1..Len(ledger) :
         \/ /\ ledger' = [ledger EXCEPT ![i] = NotJsonLine]
            /\ edit' = [kind |-> "corrupt", line |-> i, other |-> 0, field |-> ""]
         \/ \E k \in 1..Len(EntryKeys) : \E value \in {Absent, None} :
               /\ value # ledger[i][EntryKeys[k]]
               /\ ledger' = [ledger EXCEPT ![i] = [@ EXCEPT ![EntryKeys[k]] = value]]
               /\ edit' = [kind |-> "corrupt", line |-> i, other |-> 0, field |-> EntryKeys[k]]
    /\ UNCHANGED <<original, index, merkleFile, keyVars, now, writers, epochVars, guardVars,
                   writeOut, lockVars, repairOut, walVars, toolVars, extraVars>>

\* the index loses a row or has a row's entry_hash changed
DamageIndex ==
    /\ edit = NoEdit
    /\ \E k \in 1..Len(index) :
         \/ index' = SubSeq(index, 1, k - 1) \o SubSeq(index, k + 1, Len(index))
         \/ index' = [index EXCEPT ![k] = [@ EXCEPT !.entry_hash = <<"tampered">>]]
    /\ edit' = [kind |-> "index", line |-> 0, other |-> 0, field |-> ""]
    /\ UNCHANGED <<ledger, original, merkleFile, keyVars, now, writers, epochVars, guardVars,
                   writeOut, lockVars, repairOut, walVars, toolVars, extraVars>>

\* merkle_state.json is emptied or is one entry behind
DamageMerkle ==
    /\ edit = NoEdit
    /\ merkleFile' \in {MerkleEmpty, Replay(ledger, Len(ledger) - 1)}
    /\ edit' = [kind |-> "merkle", line |-> 0, other |-> 0, field |-> ""]
    /\ UNCHANGED <<ledger, original, index, keyVars, now, writers, epochVars, guardVars,
                   writeOut, lockVars, repairOut, walVars, toolVars, extraVars>>

NextVerify == TamperField \/ SwapEntries \/ CorruptLine \/ DamageIndex \/ DamageMerkle

SpecVerify == InitVerify /\ [][NextVerify]_vars

OriginalVerifies == verify_ledger(original, index, merkleFile, keyFiles, epochState).ok

VerdictNow == verify_ledger(ledger, index, merkleFile, keyFiles, epochState)

\* C6: in a log that passes verification, giving another value to any single
\* field of any entry but the last makes verify_ledger fail.
C6_FieldEditDetected ==
    (edit.kind = "field" /\ edit.line < Len(original) /\ OriginalVerifies)
        => ~VerdictNow.ok

\* C7: in a log of at least two entries that passes verification, swapping
\* any two entries makes verify_ledger fail; it fails in the first stage, at
\* the earlier of the two lines, on the previous_entry_hash comparison.
C7_SwapDetected ==
    (edit.kind = "swap" /\ Len(original) >= 2 /\ OriginalVerifies)
        => /\ ~VerdictNow.ok
           /\ VerdictNow.stage = 1
           /\ VerdictNow.line = edit.line
           /\ VerdictNow.reason = "previous_entry_hash mismatch"

C7_Witness ==
    /\ edit.kind = "swap"
    /\ edit.line = 2
    /\ edit.other = 3
    /\ OriginalVerifies
    /\ ~VerdictNow.ok

(***************************************************************************)
(* The epoch table under record_entry calls                                *)
(***************************************************************************)
EpochHashes ==
    {<<"hex64", "p", "x">>, <<"hex64", "p", "y">>, <<"hex64", "q", "x">>, <<"hex63", "r">>}

EpochMerkleStates == {MerkleEmpty, ApplyLeaf(MerkleEmpty, <<"hex64", "p", "x">>)}

RecordEntry ==
    /\ \E entry_hash \in EpochHashes : \E merkle_state \in EpochMerkleStates :
           LET result == record_entry(epochState, entry_hash, TimeStr(now), merkle_state)
           IN /\ epochState' = result.state
              /\ snapshots' = snapshots \o result.snapshot
              /\ epochOut' = [called |-> TRUE, entry_hash |-> entry_hash,
                              raised |-> result.raised, epoch_id |-> result.epoch_id,
                              before |-> epochState]
    /\ UNCHANGED <<ledgerVars, keyVars, now, writers, editVars, guardVars, writeOut, lockVars, repairOut, walVars, toolVars,
                   extraVars>>

NextEpoch == RecordEntry

SpecEpoch == Init /\ [][NextEpoch]_vars

\* the counter embedded in an epoch_id
EpochCounter(epoch_id) == CHOOSE n \in 0..Cardinality(EpochHashes) : ToString(n) = epoch_id[2]

\* C10: each entry_hash has exactly one epoch_id, which never changes; a
\* repeated record_entry call returns it and leaves the table and the counter
\* as they were; the counters in the epoch_ids strictly increase in order of
\* first recording.
C10_EpochIdsStable ==
    LET entries == epochState.entries
    IN /\ \A j, k \in 1..Len(entries) :
              j < k => /\ entries[j].entry_hash # entries[k].entry_hash
                       /\ entries[j].epoch_id # entries[k].epoch_id
                       /\ EpochCounter(entries[j].epoch_id) < EpochCounter(entries[k].epoch_id)
       /\ epochOut.called =>
              /\ \A k \in 1..Len(epochOut.before.entries) :
                     get_epoch(epochState, epochOut.before.entries[k].entry_hash)
                         = epochOut.before.entries[k].epoch_id
              /\ EpochHas(epochOut.before, epochOut.entry_hash) =>
                     /\ epochOut.epoch_id = get_epoch(epochOut.before, epochOut.entry_hash)
                     /\ epochState = epochOut.before

C10_Witness ==
    /\ epochOut.called
    /\ Len(epochState.entries) = 3
    /\ EpochHas(epochOut.before, epochOut.entry_hash)
    /\ epochOut.epoch_id = epochState.entries[2].epoch_id

(***************************************************************************)
(* The token guard under validate calls                                    *)
(***************************************************************************)
MaxGuardTime == WindowTicks + TicksPerMilli + 1

EnvTokens == GuardTokens \cup {""}

Validate ==
    /\ \E token \in EnvTokens : \E ledger_counter \in 0..MaxCounter :
           LET result == validate(guardState, token, ledger_counter, now)
           IN /\ guardState' = result.state
              /\ guardOut' = [called |-> TRUE, token |-> token,
                              ledger_counter |-> ledger_counter, at |-> now,
                              raised |-> result.raised, tag |-> result.tag,
                              prior |-> IF token = "" THEN NoRecord
                                        ELSE guardState[_hash_token(token)]]
    /\ UNCHANGED <<ledgerVars, keyVars, now, writers, editVars, epochVars, writeOut, lockVars, repairOut, walVars, toolVars,
                   extraVars>>

GuardTick ==
    /\ now < MaxGuardTime
    /\ now' = now + 1
    /\ UNCHANGED <<ledgerVars, keyVars, writers, editVars, epochVars, guardVars, writeOut, lockVars, repairOut, walVars, toolVars,
                   extraVars>>

NextGuard == Validate \/ GuardTick

SpecGuard == Init /\ [][NextGuard]_vars

Replayed == guardOut.prior.present /\ guardOut.prior.last_counter = guardOut.ledger_counter

Expired == guardOut.prior.present /\ guardOut.at - guardOut.prior.last_seen > WindowTicks

\* C9: for a configured token, validate fails when the ledger_counter is that
\* of the token's preceding successful validate, fails when more than the
\* window has passed since the token's last_seen, and otherwise succeeds,
\* returning "<token digest>:<counter>".
C9_GuardOutcome ==
    (guardOut.called /\ guardOut.token # "") =>
        /\ Replayed => guardOut.raised # ""
        /\ Expired => guardOut.raised # ""
        /\ (~Replayed /\ ~Expired) =>
               /\ guardOut.raised = ""
               /\ guardOut.tag = Sha256(<<guardOut.token>>)
                                     \o <<":", ToString(guardOut.ledger_counter)>>

C9_Witness ==
    /\ guardOut.called
    /\ guardOut.token # ""
    /\ Replayed
    /\ ~Expired
    /\ guardOut.raised = "Governance token replay detected"

(***************************************************************************)
(* Rejected input                                                          *)
(***************************************************************************)
BadInput(input) ==
    \/ input.event_type = <<"STATE_DROPPED">>
    \/ input.payload = PayloadList
    \/ input.audited_state_hash = HashShort
    \/ input.payload = PayloadNaN

\* C11: when write_receipt is given an event_type outside the allowed set, a
\* payload that is not a mapping, an audited_state_hash shorter than 8
\* characters or a payload holding a non-finite float, it raises, and the log,
\* the index rows and the persisted merkle state are as they were before.
C11_RejectedInputWritesNothing ==
    (writeOut.called /\ BadInput(writeOut.input)) =>
        /\ writeOut.raised # ""
        /\ <<ledger, index, merkleFile>> = writeOut.before

C11_Witness ==
    /\ writeOut.called
    /\ writeOut.input.payload = PayloadNaN
    /\ writeOut.raised = "ValueError"
    /\ Len(ledger) = 2
    /\ <<ledger, index, merkleFile>> = writeOut.before

(***************************************************************************)
(* The lock retry loop of _acquire_mutex.  Another process may hold the    *)
(* flock on the log for any length of time.                                *)
(***************************************************************************)
MinOf(a, b) == IF a < b THEN a ELSE b

PrepareUnderContention(w) == Len(ledger) + InFlight < MaxLockEntries /\ Prepare(w)

\* mutant: the prepared merkle update is committed although the append timed out
LockBusy_CommitsOnTimeout(w) ==
    /\ writers[w].pc = "prepared"
    /\ lock = "held"
    /\ IF backoff[w].attempts + 1 > AttemptsBound
       THEN /\ writers' = [writers EXCEPT ![w] =
                   [pc |-> "idle", raised |-> "TimeoutError",
                    attempts |-> backoff[w].attempts + 1]]
            /\ backoff' = [backoff EXCEPT ![w] = NoBackoff]
            /\ merkleFile' = writers[w].new_state
       ELSE /\ backoff' = [backoff EXCEPT ![w] =
                   [attempts |-> backoff[w].attempts + 1,
                    delay |-> MinOf(backoff[w].delay * 2, MaxDelayMs)]]
            /\ UNCHANGED <<writers, merkleFile>>
    /\ UNCHANGED <<ledger, index, keyVars, now, editVars, epochVars, guardVars, writeOut, lock, repairOut, walVars, toolVars,
                   extraVars>>

\* lines 113-119: flock raised BlockingIOError; sleep, count, double the delay,
\* and raise TimeoutError once attempts exceeds the bound
LockBusy(w) ==
    /\ writers[w].pc = "prepared"
    /\ lock = "held"
    /\ IF backoff[w].attempts + 1 > AttemptsBound
       THEN /\ writers' = [writers EXCEPT ![w] =
                   [pc |-> "idle", raised |-> "TimeoutError",
                    attempts |-> backoff[w].attempts + 1]]
            /\ backoff' = [backoff EXCEPT ![w] = NoBackoff]
       ELSE /\ backoff' = [backoff EXCEPT ![w] =
                   [attempts |-> backoff[w].attempts + 1,
                    delay |-> MinOf(backoff[w].delay * 2, MaxDelayMs)]]
            /\ UNCHANGED writers
    /\ UNCHANGED <<ledgerVars, keyVars, now, editVars, epochVars, guardVars, writeOut, lock, repairOut, walVars, toolVars,
                   extraVars>>

\* lines 112, 120-125: flock succeeded; the append runs and the lock is released
LockedAppend(w) == lock = "free" /\ AppendLine(w)

OtherLocks ==
    /\ lock = "free"
    /\ lock' = "held"
    /\ UNCHANGED <<ledgerVars, keyVars, now, writers, editVars, epochVars, guardVars,
                   writeOut, backoff, repairOut, walVars, toolVars, extraVars>>

OtherUnlocks ==
    /\ lock = "held"
    /\ lock' = "free"
    /\ UNCHANGED <<ledgerVars, keyVars, now, writers, editVars, epochVars, guardVars,
                   writeOut, backoff, repairOut, walVars, toolVars, extraVars>>

NextLock ==
    \/ \E w \in Writers : \/ PrepareUnderContention(w)
                          \/ LockBusy(w)
                          \/ LockedAppend(w)
                          \/ InsertRow(w)
                          \/ Commit(w)
    \/ OtherLocks
    \/ OtherUnlocks

SpecLock == Init /\ [][NextLock]_vars

TimedOut(w) == "raised" \in DOMAIN writers[w] /\ writers[w].raised = "TimeoutError"

\* C12: a write_receipt whose append fails because the lock is not obtained
\* within the retry bound raises, and none of its steps, from its start to
\* the raise, changes the log, the index rows or the persisted merkle state.
C12_TimeoutWritesNothing ==
    [][\A w \in Writers :
          (/\ writers[w].pc \in {"idle", "prepared"}
           /\ writers'[w].pc \in {"idle", "prepared"}
           /\ <<writers'[w], backoff'[w]>> # <<writers[w], backoff[w]>>)
              => /\ UNCHANGED <<ledger, index, merkleFile>>
                 /\ (writers[w].pc = "prepared" /\ writers'[w].pc = "idle")
                        => writers'[w].raised = "TimeoutError"]_vars

C12_Witness ==
    \E w \in Writers :
        /\ TimedOut(w)
        /\ ledger = <<>>
        /\ index = <<>>
        /\ merkleFile = MerkleEmpty

\* C15: while the lock stays held, _acquire_mutex gives up after 10 failed
\* attempts, so a call with 10 failures behind it is not about to try again;
\* the delay starts at 10 ms, doubles with every failure and is capped at 500 ms.
C15_GivesUpAfterTenAttempts ==
    \A w \in Writers :
        /\ writers[w].pc = "prepared" => backoff[w].attempts < AttemptsBound
        /\ backoff[w].delay = MinOf(InitialDelayMs * (2 ^ backoff[w].attempts), MaxDelayMs)

(***************************************************************************)
(* Order of the steps of write_receipt                                     *)
(***************************************************************************)
InLog(entry_hash) == \E k \in 1..Len(ledger) : ledger[k].entry_hash = entry_hash

\* C14: in every write_receipt execution the index insert runs only after
\* the entry's log append, and the merkle commit only after the index insert;
\* the persisted merkle state never advances to an entry that is not in the log.
C14_StepOrder ==
    [][/\ \A w \in Writers :
            (writers'[w].pc = "indexed" /\ writers[w].pc # "indexed")
                => /\ writers[w].pc = "appended"
                   /\ InLog(writers[w].entry.entry_hash)
       /\ merkleFile' # merkleFile
            => /\ InLog(merkleFile'.last_leaf_hash)
               /\ \E w \in Writers :
                      /\ writers[w].pc = "indexed"
                      /\ writers'[w].pc = "idle"
                      /\ merkleFile' = writers[w].new_state]_vars

C14_Witness ==
    /\ Quiescent
    /\ Len(ledger) = 2
    /\ Len(index) = 2
    /\ merkleFile.entry_count = 2
    /\ merkleFile.last_leaf_hash = ledger[2].entry_hash

(***************************************************************************)
(* A writer process that dies between the log append and the merkle commit *)
(***************************************************************************)
PrepareAlone(w) == Quiescent /\ Prepare(w)

Crash(w) ==
    /\ writers[w].pc \in {"appended", "indexed"}
    /\ writers' = [writers EXCEPT ![w] = [pc |-> "idle"]]
    /\ UNCHANGED <<ledgerVars, keyVars, now, editVars, epochVars, guardVars, writeOut, lockVars, repairOut, walVars, toolVars,
                   extraVars>>

NextCrash ==
    \E w \in Writers : \/ PrepareAlone(w)
                       \/ AppendLine(w)
                       \/ InsertRow(w)
                       \/ Commit(w)
                       \/ Crash(w)

SpecCrash == Init /\ [][NextCrash]_vars

\* C13: after a write_receipt that appended its entry but stopped before the
\* merkle commit, the next write_receipt does not append an entry built from
\* the stale accumulator state: every line of the log carries the entry_hash
\* of the line before it and the root of the log up to itself.
C13_NoEntryFromStaleState ==
    \A k \in 1..Len(ledger) :
        /\ ledger[k].previous_entry_hash = (IF k = 1 THEN None ELSE ledger[k - 1].entry_hash)
        /\ ledger[k].merkle_root = MerkleRoot(Replay(ledger, k))

\* C16: whatever the corruption of the log, the index or the merkle state,
\* a failing verify_ledger fails with a LedgerVerificationError (it returns
\* False); no other exception type escapes.
C16_OnlyVerificationErrors ==
    (edit.kind # "none" /\ OriginalVerifies /\ ~VerdictNow.ok)
        => VerdictNow.kind = LVE

(***************************************************************************)
(* Damage beyond the first breach                                          *)
(***************************************************************************)
\* after a breach, something the verifier would only look at later is
\* damaged too: a later line, the index, or the merkle state
LaterDamage ==
    /\ edit.kind \in {"corrupt", "index"}
    /\ ~VerdictNow.ok
    /\ \/ /\ edit.kind = "corrupt"
          /\ \E j \in (edit.line + 1)..Len(ledger) :
                /\ ledger' = [ledger EXCEPT ![j] = NotJsonLine]
                /\ edit' = [kind |-> "later", line |-> edit.line, other |-> j,
                            field |-> edit.field, first |-> VerdictNow]
          /\ UNCHANGED <<index, merkleFile>>
       \/ /\ edit.kind = "corrupt"
          /\ index' = SubSeq(index, 2, Len(index))
          /\ edit' = [kind |-> "later", line |-> edit.line, other |-> 0,
                      field |-> edit.field, first |-> VerdictNow]
          /\ UNCHANGED <<ledger, merkleFile>>
       \/ /\ merkleFile' = MerkleEmpty
          /\ edit' = [kind |-> "later", line |-> edit.line, other |-> 0,
                      field |-> edit.field, first |-> VerdictNow]
          /\ UNCHANGED <<ledger, index>>
    /\ UNCHANGED <<original, keyVars, now, writers, epochVars, guardVars, writeOut, lockVars, repairOut, walVars, toolVars,
                   extraVars>>

NextBreach == CorruptLine \/ DamageIndex \/ LaterDamage

SpecBreach == InitVerify /\ [][NextBreach]_vars

\* C17: verify_ledger stops at the first breach.  Damage to a later line, or
\* to what a later stage reads, leaves the failure it reports as it was: the
\* lowest damaged line, and the first failing stage.
C17_StopsAtFirstBreach ==
    edit.kind = "later" =>
        /\ ~VerdictNow.ok
        /\ VerdictNow = edit.first
        /\ VerdictNow.stage = 1 => VerdictNow.line = edit.line

C17_Witness ==
    /\ edit.kind = "later"
    /\ edit.line = 1
    /\ edit.other = 2
    /\ VerdictNow.stage = 1
    /\ VerdictNow.line = 1

(***************************************************************************)
(* Parallel replay (tessrax/ledger/parallel_replay.py)                     *)
(***************************************************************************)
\* sorted keys, compact separators, over every key the entry has
canonical_serialize(entry) == canonical_json(entry, EntryKeys)

\* DeterministicHasher.update feeds the hasher and returns nothing
DeterministicHasher_update(data) == None

\* `DeterministicHasher(...).update(...).digest().digest`: the digest is taken of
\* what update returned
_compute_entry_hash_for_replay(entry) ==
    LET updated == DeterministicHasher_update(canonical_serialize(entry))
    IN IF updated = None
       THEN [raised |-> "AttributeError", digest |-> None]
       ELSE [raised |-> "", digest |-> Sha256(canonical_serialize(entry))]

\* "0" * 64
ZeroHash == <<"0x64">>

RECURSIVE ReplayLoop(_, _, _, _)
ReplayLoop(lines, i, state, previous) ==
    IF i > Len(lines) THEN [raised |-> "", root |-> MerkleRoot(state)]
    ELSE LET entry == lines[i]
             recalculated == _compute_entry_hash_for_replay(entry)
         IN IF recalculated.raised # ""
            THEN [raised |-> recalculated.raised, root |-> None]
            ELSE IF \/ entry.previous_entry_hash = Absent
                    \/ entry.previous_entry_hash # previous
                    \/ recalculated.digest # entry.entry_hash
            THEN [raised |-> "LedgerRepairError", root |-> None]
            ELSE ReplayLoop(lines, i + 1, ApplyLeaf(state, recalculated.digest),
                            recalculated.digest)

parallel_replay_root(lines) == ReplayLoop(lines, 1, MerkleEmpty, ZeroHash)

\* C19: for a log produced by one or more write_receipt calls,
\* parallel_replay_root returns the root of the persisted merkle state, which
\* is also the merkle_root stored on the last log entry.
C19_ReplayRootIsPersistedRoot ==
    Len(ledger) >= 1 =>
        /\ parallel_replay_root(ledger).raised = ""
        /\ parallel_replay_root(ledger).root = MerkleRoot(merkleFile)
        /\ parallel_replay_root(ledger).root = ledger[Len(ledger)].merkle_root

(***************************************************************************)
(* Auto repair (tessrax/ledger/auto_repair.py)                             *)
(***************************************************************************)
\* lines that parse; malformed lines are skipped with a warning
_load_raw_entries_from_file(lines) == SelectSeq(lines, LAMBDA entry : entry # NotJsonLine)

\* the index is recreated with one row per entry, ledger_offset = the entry's
\* position in the list (enumerate), and the WAL is drained
rebuild_index_from_ledger(lines) ==
    LET entries == _load_raw_entries_from_file(lines)
    IN [k \in 1..Len(entries) |-> IndexRow(k - 1, entries[k])]

auto_repair(lines, rows, persisted) ==
    LET entries_to_process == _load_raw_entries_from_file(lines)
        unchanged == [merkle |-> persisted, index |-> rows, report |-> Absent]
        observed == parallel_replay_root(lines)
        diverged == MerkleRoot(persisted) # observed.root
    IN IF entries_to_process = <<>>
       THEN [raised |-> "LedgerRepairError"] @@ unchanged
       ELSE IF observed.raised # ""
       THEN [raised |-> observed.raised] @@ unchanged
       ELSE IF diverged /\ \E k \in 1..Len(entries_to_process) :
                               entries_to_process[k].entry_hash = Absent
       THEN [raised |-> "LedgerRepairError"] @@ unchanged
       ELSE [raised |-> "",
             merkle |-> IF diverged
                        THEN Replay(entries_to_process, Len(entries_to_process))
                        ELSE persisted,
             index |-> rebuild_index_from_ledger(lines),
             report |-> [entries_replayed |-> Len(entries_to_process),
                         index_entries_rebuilt |-> Len(entries_to_process),
                         merkle_root_rebuilt |-> diverged,
                         merkle_root |-> observed.root]]

Drifted == edit.kind # "none"

\* receipts are written until the files drift or a repair runs
RepairWrite ==
    /\ ~Drifted
    /\ ~repairOut.called
    /\ Len(ledger) < MaxRepairEntries
    /\ WriteReceipt

\* rows of the index are deleted
IndexDrift ==
    /\ ~repairOut.called
    /\ edit.kind \in {"none", "merkle"}
    /\ \E keep \in (SUBSET (1..Len(index))) \ {1..Len(index)} :
           index' = SelectSeq(index, LAMBDA row :
                        \E k \in keep : index[k] = row)
    /\ edit' = [edit EXCEPT !.kind = IF edit.kind = "none" THEN "index" ELSE "both"]
    /\ UNCHANGED <<ledger, merkleFile, original, keyVars, now, writers, epochVars, guardVars,
                   writeOut, lockVars, repairOut, walVars, toolVars, extraVars>>

\* merkle_state.json is emptied or is one entry behind
MerkleDrift ==
    /\ ~repairOut.called
    /\ edit.kind \in {"none", "index"}
    /\ Len(ledger) >= 1
    /\ merkleFile' \in {MerkleEmpty, Replay(ledger, Len(ledger) - 1)}
    /\ merkleFile' # merkleFile
    /\ edit' = [edit EXCEPT !.kind = IF edit.kind = "none" THEN "merkle" ELSE "both"]
    /\ UNCHANGED <<ledger, index, original, keyVars, now, writers, epochVars, guardVars,
                   writeOut, lockVars, repairOut, walVars, toolVars, extraVars>>

AutoRepair ==
    /\ ~repairOut.called
    /\ LET result == auto_repair(ledger, index, merkleFile)
       IN /\ merkleFile' = result.merkle
          /\ index' = result.index
          /\ walFile' = IF result.raised = "" THEN <<>> ELSE walFile
          /\ repairOut' = [called |-> TRUE, raised |-> result.raised,
                           report |-> result.report,
                           before |-> <<ledger, index, merkleFile>>]
    /\ UNCHANGED <<ledger, keyVars, now, writers, editVars, epochVars, guardVars,
                   writeOut, lockVars, appenders, toolVars, extraVars>>

NextRepair == RepairWrite \/ IndexDrift \/ MerkleDrift \/ AutoRepair

SpecRepair == Init /\ [][NextRepair]_vars

\* C18: for a log produced by write_receipt whose index or persisted merkle
\* state has drifted, auto_repair leaves the persisted merkle state equal to
\* the replay of the log and the index with exactly one row per log entry in
\* log order, so that a following verify_ledger passes.
C18_RepairRestoresFiles ==
    (repairOut.called /\ Drifted /\ Len(ledger) >= 1) =>
        /\ repairOut.raised = ""
        /\ merkleFile = Replay(ledger, Len(ledger))
        /\ Len(index) = Len(ledger)
        /\ \A k \in 1..Len(ledger) : index[k].entry_hash = ledger[k].entry_hash
        /\ verify_ledger(ledger, index, merkleFile, keyFiles, epochState).ok

(***************************************************************************)
(* Index backend with write-ahead log (tessrax/ledger/index_backend.py)    *)
(***************************************************************************)
\* the IndexEntry values handed to append
IndexEntries ==
    {IndexRow(offset, MakeEntry(input, 0, EnvKeyId, SeedOf(1), MerkleEmpty)) :
        offset \in 0..MaxWalOffset, input \in ValidInputs}

\* INSERT OR REPLACE under UNIQUE(ledger_offset): a row with the same offset
\* is deleted and the new row gets the next id
_insert_sqlite(rows, entry) ==
    Append(SelectSeq(rows, LAMBDA row : row.ledger_offset # entry.ledger_offset), entry)

\* lines 152-153: the payload with written_at is appended to the WAL file
WalAppend(a) ==
    /\ appenders[a].pc = "idle"
    /\ \E entry \in IndexEntries :
           /\ walFile' = Append(walFile,
                  [written_at |-> <<ToString(canonical_datetime(now))>>] @@ entry)
           /\ appenders' = [appenders EXCEPT ![a] = [pc |-> "wal_written", entry |-> entry]]
    /\ UNCHANGED <<ledgerVars, keyVars, now, writers, editVars, epochVars, guardVars,
                   writeOut, lockVars, repairOut, toolVars, extraVars>>

\* lines 154-155: the backend insert (sqlite, the default backend)
BackendInsert(a) ==
    /\ appenders[a].pc = "wal_written"
    /\ index' = _insert_sqlite(index, appenders[a].entry)
    /\ appenders' = [appenders EXCEPT ![a].pc = "inserted"]
    /\ UNCHANGED <<ledger, merkleFile, keyVars, now, writers, editVars, epochVars, guardVars,
                   writeOut, lockVars, repairOut, walFile, toolVars, extraVars>>

\* line 158 and drain, lines 41-46: the WAL file is read and rewritten empty
WalDrain(a) ==
    /\ appenders[a].pc = "inserted"
    /\ walFile' = <<>>
    /\ appenders' = [appenders EXCEPT ![a] = [pc |-> "idle"]]
    /\ UNCHANGED <<ledgerVars, keyVars, now, writers, editVars, epochVars, guardVars,
                   writeOut, lockVars, repairOut, toolVars, extraVars>>

\* the process dies between two steps of append
CrashAppend(a) ==
    /\ appenders[a].pc \in {"wal_written", "inserted"}
    /\ appenders' = [appenders EXCEPT ![a] =
           [pc |-> "crashed", at |-> appenders[a].pc, entry |-> appenders[a].entry]]
    /\ UNCHANGED <<ledgerVars, keyVars, now, writers, editVars, epochVars, guardVars,
                   writeOut, lockVars, repairOut, walFile, toolVars, extraVars>>

NextWal ==
    \E a \in Writers : WalAppend(a) \/ BackendInsert(a) \/ WalDrain(a) \/ CrashAppend(a)

SpecWal == Init /\ [][NextWal]_vars

\* an append that has written its WAL record and has not finished its backend insert
InsertPending(a) ==
    \/ appenders[a].pc = "wal_written"
    \/ appenders[a].pc = "crashed" /\ appenders[a].at = "wal_written"

\* C20: in every reachable state of LedgerIndexBackend.append, a crash between
\* its steps and two concurrent appends included, the WAL file is non-empty
\* exactly when some append has written its WAL record but has not yet
\* finished its backend insert.
C20_WalNonEmptyIffInsertPending ==
    (walFile # <<>>) <=> (\E a \in Writers : InsertPending(a))

(***************************************************************************)
(* The key registry on its own: rotations, the bootstrap done by           *)
(* load_active_signing_key, and the clock (in hours).                      *)
(***************************************************************************)
\* what load_active_signing_key returns for a registry with an active key
load_active_signing_key(state, files) ==
    [key_id |-> state.active_key, signing_key |-> files[state.active_key]]

RotateRecorded ==
    /\ \E governance_token \in Tokens, new_key_id \in KeyIds \cup {NoKey}, force \in BOOLEAN :
         /\ rotate_key(governance_token, new_key_id, force)
         /\ rotateOut' =
              [called |-> TRUE, kind |-> "rotate_key",
               governance_token |-> governance_token,
               key_id |-> IF new_key_id = NoKey THEN EnvKeyId ELSE new_key_id,
               force |-> force,
               raised |-> RotateRaised(governance_token,
                              IF new_key_id = NoKey THEN EnvKeyId ELSE new_key_id, force),
               clock |-> now,
               before |-> [state |-> rotation, files |-> keyFiles],
               after |-> [state |-> rotation', files |-> keyFiles']]
    /\ UNCHANGED <<leaves, snapshotFile, restore, compactOut, canon, extraVars>>

\* load_active_signing_key on a registry without an active key
Bootstrap ==
    /\ NeedsBootstrap
    /\ keysGenerated < MaxKeyGen
    /\ rotation' = BootRotation
    /\ keyFiles' = BootKeyFiles
    /\ keysGenerated' = BootKeysGenerated
    /\ rotateOut' =
         [called |-> TRUE, kind |-> "bootstrap", governance_token |-> EnvToken,
          key_id |-> EnvKeyId, force |-> TRUE, raised |-> "", clock |-> now,
          before |-> [state |-> rotation, files |-> keyFiles],
          after |-> [state |-> rotation', files |-> keyFiles']]
    /\ UNCHANGED <<ledgerVars, now, writers, editVars, epochVars, guardVars, writeOut,
                   lockVars, repairOut, walVars, leaves, snapshotFile, restore, compactOut,
                   canon, extraVars>>

NextRotate == RotateRecorded \/ Bootstrap \/ Tick

SpecRotate == Init /\ [][NextRotate]_vars

TooSoon ==
    /\ rotateOut.before.state.last_rotation # -1
    /\ rotateOut.clock - rotateOut.before.state.last_rotation < MinHoursBetweenRotations

\* C21: rotate_key with force=False is rejected when less than
\* min_hours_between_rotations has passed since the schedule's last_rotation
\* (which bootstrap also sets) and leaves the registry unchanged; the same call
\* with force=True succeeds.
C21_MinIntervalUnlessForced ==
    (rotateOut.called /\ rotateOut.kind = "rotate_key" /\ TooSoon) =>
        IF rotateOut.force
        THEN /\ rotateOut.raised = ""
             /\ rotateOut.after.state.active_key = rotateOut.key_id
        ELSE /\ rotateOut.raised # ""
             /\ rotateOut.after = rotateOut.before

C21_Witness ==
    /\ rotateOut.called
    /\ rotateOut.kind = "rotate_key"
    /\ TooSoon
    /\ ~rotateOut.force
    /\ rotateOut.raised = "RuntimeError"
    /\ rotateOut.before.state.keys[rotateOut.key_id] = "none"

\* C22: after every successful rotate_key or bootstrap, exactly one key record
\* has status 'active', it is the key named by active_key, and the previously
\* active key has status 'legacy' with a deprecation window whose start
\* precedes its end.
C22_OneActivePreviousLegacy ==
    (rotateOut.called /\ rotateOut.raised = "") =>
        /\ Cardinality({k \in KeyIds : rotateOut.after.state.keys[k] = "active"}) = 1
        /\ rotateOut.after.state.keys[rotateOut.after.state.active_key] = "active"
        /\ rotateOut.before.state.active_key # NoKey =>
              /\ rotateOut.after.state.keys[rotateOut.before.state.active_key] = "legacy"
              /\ rotateOut.after.state.windows[rotateOut.before.state.active_key].start
                    < rotateOut.after.state.windows[rotateOut.before.state.active_key].end

\* C23: when a governance token is configured in the environment, rotate_key
\* called with a different token and force=False raises a permission error and
\* leaves the registry state, the active key and all key files unchanged, so
\* the previously active key is still the one load_active_signing_key returns.
C23_WrongTokenDenied ==
    (/\ rotateOut.called
     /\ rotateOut.kind = "rotate_key"
     /\ rotateOut.governance_token # EnvToken
     /\ ~rotateOut.force) =>
        /\ rotateOut.raised = "PermissionError"
        /\ rotateOut.after = rotateOut.before
        /\ rotateOut.before.state.active_key # NoKey =>
              load_active_signing_key(rotateOut.after.state, rotateOut.after.files)
                  = load_active_signing_key(rotateOut.before.state, rotateOut.before.files)

C23_Witness ==
    /\ rotateOut.called
    /\ rotateOut.kind = "rotate_key"
    /\ rotateOut.governance_token # EnvToken
    /\ ~rotateOut.force
    /\ rotateOut.before.state.active_key # NoKey
    /\ rotateOut.before.state.keys[rotateOut.key_id] = "none"
    /\ ~TooSoon

\* C24: when REQUIRED_APPROVERS is non-empty, a successful rotate_key has
\* recorded the individual approver tokens (the governance token split on
\* commas; the tokens here hold no comma, so each is its own single part) in
\* the new key's governance_approval, and rotate_key fails when a required
\* approver is absent from the governance token.
C24_ApproversRecorded ==
    (/\ rotateOut.called
     /\ rotateOut.kind = "rotate_key"
     /\ RequiredApprovers # {}
     /\ rotateOut.raised = "") =>
        /\ RequiredApprovers \subseteq {rotateOut.governance_token}
        /\ "approvals" \in DOMAIN rotateOut.after.state.approvals[rotateOut.key_id]

(***************************************************************************)
(* The accumulator on its own: leaves applied one by one to the empty      *)
(* MerkleState (tessrax/ledger/merkle.py).                                 *)
(***************************************************************************)
LeafHashes == {<<"hex64", "x">>, <<"hex64", "y">>}

ApplyNext ==
    /\ Len(leaves) < MaxLeaves
    /\ \E leaf_hash \in LeafHashes :
           /\ leaves' = Append(leaves, leaf_hash)
           /\ merkleFile' = ApplyLeaf(merkleFile, leaf_hash)
    /\ UNCHANGED <<ledger, index, keyVars, now, writers, editVars, epochVars, guardVars,
                   writeOut, lockVars, repairOut, walVars, rotateOut, snapshotFile, restore,
                   compactOut, canon, extraVars>>

NextMerkle == ApplyNext

SpecMerkle == Init /\ [][NextMerkle]_vars

\* the root of the perfect subtree of the given height whose first leaf is ls[lo]
RECURSIVE SubtreeRoot(_, _, _)
SubtreeRoot(ls, lo, height) ==
    IF height = 0 THEN _hash_leaf(ls[lo])
    ELSE _hash_node(SubtreeRoot(ls, lo, height - 1),
                    SubtreeRoot(ls, lo + 2 ^ (height - 1), height - 1))

\* the completed perfect subtrees of the leaves ls[lo..], from the first leaf on
RECURSIVE Mountains(_, _, _)
Mountains(ls, lo, height) ==
    IF height < 0 THEN <<>>
    ELSE IF lo + 2 ^ height - 1 <= Len(ls)
    THEN <<[height |-> height, root |-> SubtreeRoot(ls, lo, height)]>>
             \o Mountains(ls, lo + 2 ^ height, height - 1)
    ELSE Mountains(ls, lo, height - 1)

\* C25: after n apply_leaf calls on the empty MerkleState, the peaks list
\* holds the roots of the completed perfect subtrees of the n leaves, listed
\* in ascending height order.
C25_PeaksAscending ==
    LET mountains == Mountains(leaves, 1, MaxLeaves)
    IN /\ Len(merkleFile.peaks) = Len(mountains)
       /\ \A i \in 1..Len(mountains) :
              /\ merkleFile.peaks[i] = mountains[Len(mountains) + 1 - i].root
              /\ \A j \in (i + 1)..Len(mountains) :
                     mountains[Len(mountains) + 1 - i].height
                         < mountains[Len(mountains) + 1 - j].height

\* C25 as amended: the peaks list holds the roots of the completed perfect
\* subtrees of the n leaves, listed in descending height order (the subtree
\* over the first leaves first).
C25_PeaksDescending ==
    LET mountains == Mountains(leaves, 1, MaxLeaves)
    IN /\ Len(merkleFile.peaks) = Len(mountains)
       /\ \A i \in 1..Len(mountains) :
              /\ merkleFile.peaks[i] = mountains[i].root
              /\ \A j \in (i + 1)..Len(mountains) :
                     mountains[i].height > mountains[j].height

C25_Witness ==
    /\ Len(leaves) = 7
    /\ Len(merkleFile.peaks) = 3
    /\ merkleFile.peaks[1] = SubtreeRoot(leaves, 1, 2)

\* node(p[i], node(p[i+1], ... node(p[k-1], p[k])))
RECURSIVE RightFold(_, _)
RightFold(peaks, i) ==
    IF i = Len(peaks) THEN peaks[i] ELSE _hash_node(peaks[i], RightFold(peaks, i + 1))

\* node(node(... node(p[1], p[2]) ..., p[k-1]), p[k])
RECURSIVE LeftFold(_, _)
LeftFold(peaks, k) ==
    IF k = 1 THEN peaks[1] ELSE _hash_node(LeftFold(peaks, k - 1), peaks[k])

export_snapshot(lines, persisted, rows, clock) ==
    [metadata |-> [entries |-> Len(lines), created_at |-> TimeStr(clock),
                   auditor |-> AUDITOR_IDENTITY],
     ledger_lines |-> lines,
     merkle_state |-> persisted,
     index_dump |-> rows]

\* receipts are written while no restore is running
SnapshotWrite ==
    /\ restore.pc = "idle"
    /\ Len(ledger) < MaxRestoreEntries
    /\ WriteReceipt

ExportSnapshot ==
    /\ restore.pc = "idle"
    /\ snapshotFile' = export_snapshot(ledger, merkleFile, index, now)
    /\ snapshotFile' # snapshotFile
    /\ UNCHANGED <<ledgerVars, keyVars, now, writers, editVars, epochVars, guardVars,
                   writeOut, lockVars, repairOut, walVars, rotateOut, leaves, restore,
                   compactOut, canon, extraVars>>

\* lines 90-99: without a snapshot file DiagnosticError is raised; with one,
\* the ledger file is rewritten from ledger_lines
RestoreLedger ==
    /\ restore.pc = "idle"
    /\ IF snapshotFile = Absent
       THEN /\ restore' = [pc |-> "raised", raised |-> "DiagnosticError",
                           before |-> <<ledger, merkleFile, index>>]
            /\ UNCHANGED ledger
       ELSE /\ restore' = [pc |-> "ledger_written", raised |-> "",
                           before |-> <<ledger, merkleFile, index>>]
            /\ ledger' = snapshotFile.ledger_lines
    /\ UNCHANGED <<index, merkleFile, keyVars, now, writers, editVars, epochVars, guardVars,
                   writeOut, lockVars, repairOut, walVars, rotateOut, leaves, snapshotFile,
                   compactOut, canon, extraVars>>

\* lines 100-102: the merkle state file is rewritten
RestoreMerkle ==
    /\ restore.pc = "ledger_written"
    /\ merkleFile' = snapshotFile.merkle_state
    /\ restore' = [restore EXCEPT !.pc = "merkle_written"]
    /\ UNCHANGED <<ledger, index, keyVars, now, writers, editVars, epochVars, guardVars,
                   writeOut, lockVars, repairOut, walVars, rotateOut, leaves, snapshotFile,
                   compactOut, canon, extraVars>>

\* lines 103-111: the index table is dropped and recreated from the dump
RestoreIndex ==
    /\ restore.pc = "merkle_written"
    /\ index' = snapshotFile.index_dump
    /\ restore' = [restore EXCEPT !.pc = "done"]
    /\ UNCHANGED <<ledger, merkleFile, keyVars, now, writers, editVars, epochVars, guardVars,
                   writeOut, lockVars, repairOut, walVars, rotateOut, leaves, snapshotFile,
                   compactOut, canon, extraVars>>

\* the process dies between two of the writes
RestoreCrash ==
    /\ restore.pc \in {"ledger_written", "merkle_written"}
    /\ restore' = [restore EXCEPT !.pc = "crashed"]
    /\ UNCHANGED <<ledgerVars, keyVars, now, writers, editVars, epochVars, guardVars,
                   writeOut, lockVars, repairOut, walVars, rotateOut, leaves, snapshotFile,
                   compactOut, canon, extraVars>>

NextRestore ==
    \/ SnapshotWrite
    \/ ExportSnapshot
    \/ RestoreLedger
    \/ RestoreMerkle
    \/ RestoreIndex
    \/ RestoreCrash

SpecRestore == Init /\ [][NextRestore]_vars

\* C27: restore_snapshot rewrites the log, the merkle state and the index
\* atomically: at any point where it may stop (crash or error), the three
\* artifacts are either all in their pre-restore state or all in the
\* snapshot's state.
C27_RestoreAllOrNothing ==
    restore.pc # "idle" =>
        \/ <<ledger, merkleFile, index>> = restore.before
        \/ /\ snapshotFile # Absent
           /\ <<ledger, merkleFile, index>> =
                  <<snapshotFile.ledger_lines, snapshotFile.merkle_state,
                    snapshotFile.index_dump>>

(***************************************************************************)
(* Compaction (tessrax/ledger/compaction.py)                               *)
(***************************************************************************)
\* the first entries instead of the last
Retained_FromStart(entries, retain) ==
    SubSeq(entries, 1, IF retain >= Len(entries) THEN Len(entries) ELSE retain)

\* entries[-retain:] for retain >= 1
Retained(entries, retain) ==
    SubSeq(entries, IF retain >= Len(entries) THEN 1 ELSE Len(entries) - retain + 1,
           Len(entries))

\* the output file, the merkle state and the report compact leaves; the output
\* path is a file of its own (by default ledger_compacted.jsonl beside the log)
compact(lines, persisted, retain) ==
    IF lines = <<>>
    THEN [raised |-> "LedgerRepairError", output |-> Absent, merkle |-> persisted,
          report |-> Absent]
    ELSE LET clamped == IF retain > 1 THEN retain ELSE 1
             retained == Retained(lines, clamped)
             state == Replay(retained, Len(retained))
         IN [raised |-> "",
             output |-> retained,
             merkle |-> state,
             report |-> [retained_entries |-> Len(retained),
                         dropped_entries |-> Len(lines) - Len(retained),
                         new_merkle_root |-> MerkleRoot(state),
                         old_merkle_root |-> lines[Len(lines)].merkle_root]]

\* receipts are written until the log is compacted
CompactWrite ==
    /\ ~compactOut.called
    /\ Len(ledger) < MaxCompactEntries
    /\ WriteReceipt

Compact ==
    /\ ~compactOut.called
    /\ \E retain \in -1..(MaxCompactEntries + 1) :
         LET result == compact(ledger, merkleFile, retain)
         IN /\ merkleFile' = result.merkle
            /\ compactOut' = [called |-> TRUE, retain |-> retain, raised |-> result.raised,
                              output |-> result.output, report |-> result.report,
                              before |-> <<ledger, merkleFile>>]
    /\ UNCHANGED <<ledger, index, keyVars, now, writers, editVars, epochVars, guardVars,
                   writeOut, lockVars, repairOut, walVars, rotateOut, leaves, snapshotFile,
                   restore, canon, extraVars>>

NextCompact == CompactWrite \/ Compact

SpecCompact == Init /\ [][NextCompact]_vars

\* C28: compact(retain) writes exactly the last min(max(retain, 1), N) entries
\* of the N-entry source log, in order, to the output file, leaves the source
\* log unchanged, sets the persisted merkle state to a fresh accumulator over
\* the retained entries' entry_hash values, and reports
\* retained_entries + dropped_entries = N.
C28_CompactKeepsTail ==
    (compactOut.called /\ compactOut.raised = "") =>
        LET source == compactOut.before[1]
            wanted == IF compactOut.retain < 1 THEN 1
                      ELSE IF compactOut.retain > Len(source) THEN Len(source)
                      ELSE compactOut.retain
        IN /\ Len(compactOut.output) = wanted
           /\ \A i \in 1..wanted :
                  compactOut.output[i] = source[Len(source) - wanted + i]
           /\ ledger = source
           /\ merkleFile.entry_count = wanted
           /\ merkleFile.last_leaf_hash = source[Len(source)].entry_hash
           /\ LET mountains ==
                      Mountains([k \in 1..wanted |-> compactOut.output[k].entry_hash],
                                1, wanted)
              IN merkleFile.peaks = [i \in 1..Len(mountains) |-> mountains[i].root]
           /\ compactOut.report.retained_entries + compactOut.report.dropped_entries
                  = Len(source)

C28_Witness ==
    /\ compactOut.called
    /\ compactOut.raised = ""
    /\ Len(compactOut.before[1]) = 3
    /\ compactOut.retain = 2
    /\ Len(compactOut.output) = 2
    /\ compactOut.report.dropped_entries = 1

\* C30: every index row's ledger_offset is the byte offset at which its log
\* line starts, both for the rows write_receipt inserted and for the rows
\* rebuild_index_from_ledger produces, so rebuilding the index of an
\* unmodified ledger reproduces exactly the rows that the writes inserted.
C30_OffsetsAreByteOffsets ==
    /\ \A k \in 1..Len(index) : \E i \in 1..Len(ledger) :
           /\ index[k].entry_hash = ledger[i].entry_hash
           /\ index[k].ledger_offset = FileSize(SubSeq(ledger, 1, i - 1), 1)
    /\ \A i \in 1..Len(ledger) :
           rebuild_index_from_ledger(ledger)[i].ledger_offset
               = FileSize(SubSeq(ledger, 1, i - 1), 1)
    /\ rebuild_index_from_ledger(ledger) = index

(***************************************************************************)
(* Canonical JSON of typed payloads (tessrax/core/serialization.py).  A    *)
(* mapping is the sequence of its items in insertion order; a key is an    *)
(* int or a str; a value is an int, a float (by its repr), a Decimal or a  *)
(* str.                                                                    *)
(***************************************************************************)
\* the texts str(key) can give, in sorted order
KeyTexts == <<"1", "a">>

PayloadKeys ==
    {[t |-> "int", v |-> "1"], [t |-> "str", v |-> "1"], [t |-> "str", v |-> "a"]}

PayloadValues ==
    {[t |-> "int", v |-> "1"], [t |-> "float", v |-> "1.5"], [t |-> "float", v |-> "0.0"],
     [t |-> "float", v |-> "-0.0"], [t |-> "float", v |-> "nan"],
     [t |-> "decimal", v |-> "1.50"], [t |-> "str", v |-> "s"]}

\* mappings of at most MaxPairs items with distinct keys
Payloads ==
    UNION {{pairs \in [1..n -> [key : PayloadKeys, value : PayloadValues]] :
                \A i \in 1..n : \A j \in 1..n : i # j => pairs[i].key # pairs[j].key} :
           n \in 0..MaxPairs}

\* the same items inserted in another order
Reorderings(pairs) ==
    {other \in Payloads :
        /\ Len(other) = Len(pairs)
        /\ \A i \in 1..Len(pairs) : \E j \in 1..Len(other) : other[j] = pairs[i]}

\* a dict built by a comprehension over items: a key text seen again keeps
\* its place and takes the later value
RECURSIVE DictOf(_, _)
DictOf(items, n) ==
    IF n = 0 THEN <<>>
    ELSE LET built == DictOf(items, n - 1)
             text == items[n].key.v
         IN IF \E k \in 1..Len(built) : built[k].key.v = text
            THEN [k \in 1..Len(built) |->
                     IF built[k].key.v = text
                     THEN [key |-> built[k].key, value |-> items[n].value]
                     ELSE built[k]]
            ELSE Append(built, [key |-> [t |-> "str", v |-> text], value |-> items[n].value])

\* {str(key): value for key, value in items}
_materialize_for_json(pairs) == DictOf(pairs, Len(pairs))

\* json.dumps of one value
JsonValue(value) ==
    CASE value.t = "int" -> <<value.v>>
      [] value.t = "float" -> <<IF value.v = "nan" THEN "NaN" ELSE value.v>>
      [] value.t = "str" -> <<"\"", value.v, "\"">>
      [] OTHER -> <<"TypeError">>

\* json.dumps(sort_keys=True) of a dict with str keys
RECURSIVE DumpsSorted(_, _)
DumpsSorted(dict, r) ==
    IF r > Len(KeyTexts) THEN <<>>
    ELSE LET here == SelectSeq(dict, LAMBDA item : item.key.v = KeyTexts[r])
         IN (IF here = <<>> THEN <<>> ELSE <<KeyTexts[r]>> \o JsonValue(here[1].value))
            \o DumpsSorted(dict, r + 1)

\* canonical_json of a typed payload: the text, or the exception json.dumps raises
CanonicalJson(pairs) ==
    LET materialized == _materialize_for_json(pairs)
    IN IF \E k \in 1..Len(materialized) : materialized[k].value.t = "decimal"
       THEN [raised |-> "TypeError", text |-> <<>>]
       ELSE [raised |-> "", text |-> <<"{">> \o DumpsSorted(materialized, 1) \o <<"}">>]

\* float(Decimal(str(value)).normalize()), and 0.0 for both zeros
_normalize_float(value) ==
    IF value.v \in {"0.0", "-0.0"} THEN [t |-> "float", v |-> "0.0"] ELSE value

_normalize(value) ==
    CASE value.t = "float" -> _normalize_float(value)
      [] value.t = "decimal" -> _normalize_float([t |-> "float", v |-> "1.5"])
      [] OTHER -> value

\* sorted(value, key=str): a stable sort of the items by str(key)
RECURSIVE SortedByStr(_, _)
SortedByStr(pairs, r) ==
    IF r > Len(KeyTexts) THEN <<>>
    ELSE SelectSeq(pairs, LAMBDA item : item.key.v = KeyTexts[r]) \o SortedByStr(pairs, r + 1)

normalize_payload(pairs) ==
    IF \E k \in 1..Len(pairs) : pairs[k].value = [t |-> "float", v |-> "nan"]
    THEN [raised |-> "ValueError", payload |-> <<>>]
    ELSE [raised |-> "",
          payload |-> DictOf([k \in 1..Len(pairs) |->
                                 [key |-> SortedByStr(pairs, 1)[k].key,
                                  value |-> _normalize(SortedByStr(pairs, 1)[k].value)]],
                             Len(pairs))]

Canonicalize ==
    /\ canon = Absent
    /\ \E x \in Payloads : \E y \in Reorderings(x) :
           canon' = [x |-> x, y |-> y,
                     json_x |-> CanonicalJson(x),
                     json_y |-> CanonicalJson(y),
                     normalized |-> normalize_payload(x),
                     json_normalized |-> CanonicalJson(normalize_payload(x).payload)]
    /\ UNCHANGED <<ledgerVars, keyVars, now, writers, editVars, epochVars, guardVars,
                   writeOut, lockVars, repairOut, walVars, rotateOut, leaves, snapshotFile,
                   restore, compactOut, extraVars>>

NextCanon == Canonicalize

SpecCanon == Init /\ [][NextCanon]_vars

\* C29: canonical_json is stable under map key reordering and under
\* normalization: two mappings holding the same key/value pairs inserted in
\* different orders (keys of any string-coercible type) yield the same
\* canonical_json, and for any payload x that normalize_payload accepts,
\* canonical_json(x) = canonical_json(normalize_payload(x)).
C29_CanonicalJsonStable ==
    canon # Absent =>
        /\ canon.json_x = canon.json_y
        /\ canon.normalized.raised = "" => canon.json_x = canon.json_normalized

(***************************************************************************)
(* The two index backends fed the same calls                               *)
(* (tessrax/ledger/index_backend.py).  backends.sqlite is the ledger_index *)
(* table in id order, backends.rocksdb the lines of rocksdb_index.json.    *)
(***************************************************************************)
\* JsonKeyValueIndex.append, lines 67-70: load, append, save
JsonKeyValueIndex_append(lines, payload) == Append(lines, payload)

\* JsonKeyValueIndex.rebuild, lines 72-73: the file is rewritten with the payloads
JsonKeyValueIndex_rebuild(payloads) == payloads

\* LedgerIndexBackend.rebuild on sqlite, lines 161-166: a fresh table, one insert per entry
RECURSIVE rebuild_sqlite(_, _)
rebuild_sqlite(entries, n) ==
    IF n = 0 THEN <<>> ELSE _insert_sqlite(rebuild_sqlite(entries, n - 1), entries[n])

\* LedgerIndexBackend.append, lines 151-158, once per backend
BackendAppend ==
    /\ Len(backends.rocksdb) < MaxBackendRows
    /\ \E entry \in IndexEntries :
           backends' =
               [sqlite |-> _insert_sqlite(backends.sqlite, entry),
                rocksdb |-> JsonKeyValueIndex_append(backends.rocksdb,
                                [written_at |-> <<ToString(canonical_datetime(now))>>] @@ entry)]
    /\ UNCHANGED <<ledgerVars, keyVars, now, writers, editVars, epochVars, guardVars,
                   writeOut, lockVars, repairOut, walVars, toolVars, scanOut, stateFile, guardLog>>

\* LedgerIndexBackend.rebuild, lines 160-171, once per backend
BackendRebuild ==
    /\ \E n \in 0..MaxBackendRows : \E entries \in [1..n -> IndexEntries] :
           backends' = [sqlite |-> rebuild_sqlite(entries, n),
                        rocksdb |-> JsonKeyValueIndex_rebuild(entries)]
    /\ UNCHANGED <<ledgerVars, keyVars, now, writers, editVars, epochVars, guardVars,
                   writeOut, lockVars, repairOut, walVars, toolVars, scanOut, stateFile, guardLog>>

NextBackends == BackendAppend \/ BackendRebuild

SpecBackends == Init /\ [][NextBackends]_vars

\* the IndexEntry fields of a stored payload
_entry_to_payload(row) == [f \in DOMAIN row \ {"written_at"} |-> row[f]]

\* C31: the sqlite and JSON key-value index backends are interchangeable:
\* after the same sequence of append and rebuild calls (including appends
\* that repeat a ledger_offset), both hold the same entries in the same order.
C31_BackendsInterchangeable ==
    backends.sqlite = [k \in 1..Len(backends.rocksdb) |-> _entry_to_payload(backends.rocksdb[k])]

(***************************************************************************)
(* Divergence scan (tessrax/ledger/divergence.py)                          *)
(***************************************************************************)
DivergenceReport(ledger_entries, index_entries, merkle_entries, root_matches) ==
    [ledger_entries |-> ledger_entries,
     index_entries |-> index_entries,
     merkle_entries |-> merkle_entries,
     root_matches |-> root_matches,
     differences |-> [ledger_vs_index |-> ledger_entries - index_entries,
                      ledger_vs_merkle |-> ledger_entries - merkle_entries,
                      index_vs_merkle |-> index_entries - merkle_entries]]

\* lines 68-98: the counts, then the replayed root against the persisted one
scan_state_divergence(lines, rows, persisted) ==
    IF Len(lines) = 0
    THEN [raised |-> "DiagnosticError", report |-> None]
    ELSE LET replay == parallel_replay_root(lines)
         IN IF replay.raised # ""
            THEN [raised |-> replay.raised, report |-> None]
            ELSE [raised |-> "",
                  report |-> DivergenceReport(Len(lines), Len(rows), persisted.entry_count,
                                              replay.root = MerkleRoot(persisted))]

\* lines 101-112
analyze_root_cause(report) ==
    IF /\ report.root_matches
       /\ \A name \in DOMAIN report.differences : report.differences[name] = 0
    THEN "NONE"
    ELSE IF report.differences.ledger_vs_index # 0 THEN "INDEX_DRIFT"
    ELSE IF report.differences.ledger_vs_merkle # 0 THEN "MERKLE_DRIFT"
    ELSE "UNKNOWN"

\* scan_state_divergence on the files as they are
ScanDivergence ==
    /\ ~scanOut.called
    /\ scanOut' = [called |-> TRUE, kind |-> "scan",
                   result |-> scan_state_divergence(ledger, index, merkleFile),
                   before |-> [ledger |-> ledger, index |-> index,
                               merkle |-> merkleFile, edit |-> edit.kind]]
    /\ UNCHANGED <<ledgerVars, keyVars, now, writers, editVars, epochVars, guardVars,
                   writeOut, lockVars, repairOut, walVars, toolVars, backends, stateFile, guardLog>>

\* analyze_root_cause on a report of any counts
AnalyzeReport ==
    /\ ~scanOut.called
    /\ \E l \in 1..MaxScanCount : \E i \in 0..MaxScanCount : \E m \in 0..MaxScanCount :
       \E root_matches \in BOOLEAN :
           scanOut' = [called |-> TRUE, kind |-> "analyze",
                       report |-> DivergenceReport(l, i, m, root_matches),
                       classification |->
                           analyze_root_cause(DivergenceReport(l, i, m, root_matches))]
    /\ UNCHANGED <<ledgerVars, keyVars, now, writers, editVars, epochVars, guardVars,
                   writeOut, lockVars, repairOut, walVars, toolVars, backends, stateFile, guardLog>>

NextDivergence == RepairWrite \/ IndexDrift \/ MerkleDrift \/ ScanDivergence \/ AnalyzeReport

SpecDivergence == Init /\ [][NextDivergence]_vars

\* the classification the claim gives for a report
Classified(report) ==
    LET d == report.differences
    IN IF report.root_matches /\ d.ledger_vs_index = 0 /\ d.ledger_vs_merkle = 0
          /\ d.index_vs_merkle = 0
       THEN "NONE"
       ELSE IF report.ledger_entries # report.index_entries THEN "INDEX_DRIFT"
       ELSE IF report.ledger_entries # report.merkle_entries THEN "MERKLE_DRIFT"
       ELSE "UNKNOWN"

\* one index row of a consistent ledger/index/merkle state is gone
OneRowRemoved(files) ==
    /\ files.edit = "index"
    /\ Len(files.index) = Len(files.ledger) - 1
    /\ files.merkle = Replay(files.ledger, Len(files.ledger))

\* C32: analyze_root_cause returns NONE exactly when root_matches is true and
\* all three count differences are zero, INDEX_DRIFT whenever the ledger and
\* index counts differ, MERKLE_DRIFT when those agree but the ledger and
\* merkle counts differ, and UNKNOWN otherwise; removing one index row from a
\* consistent ledger/index/merkle state makes scan_state_divergence report
\* ledger_vs_index = 1 with root_matches true.
C32_ScanAndRootCause ==
    /\ (scanOut.called /\ scanOut.kind = "analyze") =>
           scanOut.classification = Classified(scanOut.report)
    /\ (scanOut.called /\ scanOut.kind = "scan" /\ OneRowRemoved(scanOut.before)) =>
           /\ scanOut.result.raised = ""
           /\ scanOut.result.report.differences.ledger_vs_index = 1
           /\ scanOut.result.report.root_matches

(***************************************************************************)
(* MerkleAccumulator._persist_state step by step (tessrax/ledger/merkle.py)*)
(* stateFile.content tells what merkle_state.json holds: nothing ("absent")*)
(* no bytes ("empty"), a prefix of the JSON text ("partial") or the whole   *)
(* text of stateFile.state ("complete").                                   *)
(***************************************************************************)
\* lines 97-104; a prefix of the text does not parse
_load_state(file) ==
    CASE file.content \in {"absent", "empty"} -> [raised |-> "", state |-> MerkleEmpty]
      [] file.content = "partial" -> [raised |-> "JSONDecodeError", state |-> MerkleEmpty]
      [] OTHER -> [raised |-> "", state |-> file.state]

\* write_receipt up to the index insert, memory_engine.py lines 195-238, with
\* the accumulator loaded from the file
PersistBegin ==
    /\ stateFile.pc = "idle"
    /\ Len(ledger) < MaxPersistEntries
    /\ _load_state(stateFile).raised = ""
    /\ \E input \in ValidInputs :
           LET state == _load_state(stateFile).state
               entry == MakeEntry(input, now, EnvKeyId, SeedOf(1), state)
           IN /\ ledger' = Append(ledger, entry)
              /\ index' = _append_to_index(index, IndexRow(_append_offset(ledger), entry))
              /\ stateFile' = [content |-> stateFile.content, state |-> stateFile.state,
                               pc |-> "commit",
                               new_state |-> PrepareUpdate(state, entry.entry_hash).new_state]
    /\ UNCHANGED <<merkleFile, keyVars, now, writers, editVars, epochVars, guardVars,
                   writeOut, lockVars, repairOut, walVars, toolVars, backends, scanOut, guardLog>>

\* line 129: write_text opens the file for writing, which truncates it
PersistOpen ==
    /\ stateFile.pc = "commit"
    /\ stateFile' = [stateFile EXCEPT !.content = "empty", !.pc = "opened"]
    /\ UNCHANGED <<ledgerVars, keyVars, now, writers, editVars, epochVars, guardVars,
                   writeOut, lockVars, repairOut, walVars, toolVars, backends, scanOut, guardLog>>

\* lines 129-132: the text is written and the file closed
PersistFlush ==
    /\ stateFile.pc = "opened"
    /\ stateFile' = [content |-> "complete", state |-> stateFile.new_state, pc |-> "idle"]
    /\ UNCHANGED <<ledgerVars, keyVars, now, writers, editVars, epochVars, guardVars,
                   writeOut, lockVars, repairOut, walVars, toolVars, backends, scanOut, guardLog>>

\* the process dies before or during the write
PersistCrash ==
    /\ stateFile.pc \in {"commit", "opened"}
    /\ \E content \in (IF stateFile.pc = "commit" THEN {stateFile.content}
                       ELSE {"empty", "partial"}) :
           stateFile' = [content |-> content, state |-> stateFile.state, pc |-> "idle"]
    /\ UNCHANGED <<ledgerVars, keyVars, now, writers, editVars, epochVars, guardVars,
                   writeOut, lockVars, repairOut, walVars, toolVars, backends, scanOut, guardLog>>

NextPersist == PersistBegin \/ PersistOpen \/ PersistFlush \/ PersistCrash \/ Tick

SpecPersist == Init /\ [][NextPersist]_vars

\* C33: MerkleAccumulator.commit persists the state atomically: at any crash
\* point during the write, the state file contains either the complete
\* previous state or the complete new state, never an empty or partial file.
C33_PersistAtomic == stateFile.content \in {"absent", "complete"}

(***************************************************************************)
(* The state hash the writer lets in against the one the verifier wants    *)
(***************************************************************************)
\* verify_ledger.py lines 36, 93-97: STATE_HASH_PATTERN matches 32 or 64
\* lowercase hex characters
_validate_state_hash(value) == IsStr(value) /\ value[1] \in {"hex32", "hex64"}

\* C34: every audited_state_hash that write_receipt accepts is one the
\* verifier accepts (32 or 64 lowercase hex characters), so a receipt accepted
\* by the writer is never rejected by verify_ledger because of its state hash.
C34_AcceptedStateHashVerifies ==
    \A k \in 1..Len(ledger) : _validate_state_hash(ledger[k].audited_state_hash)

(***************************************************************************)
(* The tags validate hands out over a run of calls                         *)
(***************************************************************************)
\* validate, with every tag it returns noted in guardLog.tags
ValidateTagged ==
    /\ Len(guardLog.tags) < MaxTags
    /\ \E token \in GuardTokens : \E ledger_counter \in 0..MaxCounter :
           LET result == validate(guardState, token, ledger_counter, now)
           IN /\ guardState' = result.state
              /\ guardOut' = [called |-> TRUE, token |-> token,
                              ledger_counter |-> ledger_counter, at |-> now,
                              raised |-> result.raised, tag |-> result.tag,
                              prior |-> guardState[_hash_token(token)]]
              /\ guardLog' = [guardLog EXCEPT !.tags =
                                 IF result.raised = "" THEN Append(@, result.tag) ELSE @]
    /\ UNCHANGED <<ledgerVars, keyVars, now, writers, editVars, epochVars, writeOut, lockVars,
                   repairOut, walVars, toolVars, backends, scanOut, stateFile>>

NextTags == ValidateTagged \/ GuardTick

SpecTags == Init /\ [][NextTags]_vars

\* C35: across any sequence of successful GovernanceTokenGuard.validate calls
\* with one token and arbitrary ledger counters, no freshness tag is ever
\* returned twice.
C35_NoTagTwice ==
    \A i \in 1..Len(guardLog.tags) : \A j \in 1..Len(guardLog.tags) :
        i # j => guardLog.tags[i] # guardLog.tags[j]

(***************************************************************************)
(* The guard state across failed validate calls                            *)
(***************************************************************************)
ExpiryError == "Governance token expired; refresh required"

\* validate, with the tokens it has found expired noted in guardLog.expired,
\* whether the token of this call was among them, and whether the call left
\* the state as it was
ValidateTracked ==
    /\ \E token \in GuardTokens : \E ledger_counter \in 0..MaxCounter :
           LET result == validate(guardState, token, ledger_counter, now)
           IN /\ guardState' = result.state
              /\ guardOut' = [called |-> TRUE, token |-> token,
                              ledger_counter |-> ledger_counter, at |-> now,
                              raised |-> result.raised, tag |-> result.tag,
                              prior |-> guardState[_hash_token(token)]]
              /\ guardLog' = [tags |-> <<>>,
                              expired |-> IF result.raised = ExpiryError
                                          THEN guardLog.expired \cup {token}
                                          ELSE guardLog.expired,
                              was_expired |-> token \in guardLog.expired,
                              state_kept |-> result.state = guardState]
    /\ UNCHANGED <<ledgerVars, keyVars, now, writers, editVars, epochVars, writeOut, lockVars,
                   repairOut, walVars, toolVars, backends, scanOut, stateFile>>

NextExpiry == ValidateTracked \/ GuardTick

SpecExpiry == Init /\ [][NextExpiry]_vars

\* C36: a failed GovernanceTokenGuard.validate leaves the persisted guard
\* state unchanged; consequently, once validate has raised the expiry error
\* for a token, every later validate call with the same token (any counter,
\* at any later time) also raises the expiry error.
C36_ExpiredStaysExpired ==
    guardOut.called =>
        /\ guardOut.raised # "" => guardLog.state_kept
        /\ guardLog.was_expired => guardOut.raised = ExpiryError

\* a token found expired earlier is tried again, later and with another counter
C36_Witness ==
    /\ guardOut.called
    /\ guardLog.was_expired
    /\ guardOut.raised = ExpiryError
    /\ guardOut.ledger_counter # guardOut.prior.last_counter
    /\ guardOut.at > guardOut.prior.last_seen + WindowTicks + 1
    /\ guardLog.state_kept

(***************************************************************************)
(* repair_ledger_data (tessrax/ledger/auto_repair.py) with the replay      *)
(* engine (tessrax/core/ledger_replay.py) and tree (tessrax/core/merkle.py)*)
(* The logs under study hold entries of distinct audited_state_hash, the   *)
(* first key of the canonical text, so that it alone decides the sort.     *)
(***************************************************************************)
\* the place of canonical_serialize(entry) in byte order
SerializedRank(entry) ==
    CASE entry.audited_state_hash = HashA -> 1
      [] entry.audited_state_hash = HashB -> 2
      [] OTHER -> 3

\* sorted(ledger_entries, key=canonical_serialize), ledger_replay.py line 15
RECURSIVE SortedEntries(_, _)
SortedEntries(entries, r) ==
    IF r > 3 THEN <<>>
    ELSE SelectSeq(entries, LAMBDA entry : SerializedRank(entry) = r)
             \o SortedEntries(entries, r + 1)

\* MerkleNode of a leaf and of two children, core/merkle.py lines 16-25
MerkleNode_leaf(entry) == Sha256(canonical_serialize(entry))
MerkleNode_parent(left, right) == Sha256(left \o right)

\* core/merkle.py lines 50-59: an odd level pairs its last node with itself
RECURSIVE _build_tree(_)
_build_tree(nodes) ==
    IF Len(nodes) = 1 THEN nodes[1]
    ELSE _build_tree([i \in 1..((Len(nodes) + 1) \div 2) |->
             MerkleNode_parent(nodes[2 * i - 1],
                               IF 2 * i <= Len(nodes) THEN nodes[2 * i]
                               ELSE nodes[2 * i - 1])])

\* LedgerReplayEngine(entries).get_merkle_root(), for a non-empty list
get_merkle_root(entries) ==
    LET sorted_entries == SortedEntries(entries, 1)
    IN _build_tree([k \in 1..Len(sorted_entries) |-> MerkleNode_leaf(sorted_entries[k])])

\* DivergenceDetector.detect_divergence, divergence.py lines 130-149: the
\* delta diff is computed only when the roots differ
detect_divergence(primary_entries, secondary_entries) ==
    IF primary_entries = <<>> \/ secondary_entries = <<>>
    THEN [raised |-> "ValueError", roots_match |-> FALSE]
    ELSE [raised |-> "",
          roots_match |-> get_merkle_root(primary_entries) = get_merkle_root(secondary_entries)]

\* auto_repair.py lines 80-132: the ledger lines afterwards and the report
repair_ledger_data(lines, snapshot) ==
    LET current_entries == _load_raw_entries_from_file(lines)
    IN IF snapshot = Absent
       THEN [raised |-> "DiagnosticError", lines |-> lines, ledger_repaired |-> FALSE]
       ELSE LET trusted_entries == snapshot.ledger_lines
                detection == detect_divergence(trusted_entries, current_entries)
            IN IF detection.raised # ""
               THEN [raised |-> detection.raised, lines |-> lines, ledger_repaired |-> FALSE]
               ELSE IF ~detection.roots_match
               THEN [raised |-> "", lines |-> trusted_entries, ledger_repaired |-> TRUE]
               ELSE [raised |-> "", lines |-> lines, ledger_repaired |-> FALSE]

\* receipts of distinct state hash are written before the snapshot is taken
TrustedWrite ==
    /\ snapshotFile = Absent
    /\ Len(ledger) < MaxTrustedEntries
    /\ WriteReceipt
    /\ \A i \in 1..Len(ledger') : \A j \in 1..Len(ledger') :
           i # j => ledger'[i].audited_state_hash # ledger'[j].audited_state_hash

TrustSnapshot ==
    /\ snapshotFile = Absent
    /\ Len(ledger) >= 1
    /\ ExportSnapshot

\* what the ledger file may hold later: an entry changed, missing, extra,
\* duplicated, or two entries in each other's place
Damaged(lines) ==
    {[kind |-> "changed", lines |-> [lines EXCEPT ![i].payload_hash = <<"tampered">>]] :
        i \in 1..Len(lines)}
    \cup {[kind |-> "missing",
           lines |-> SubSeq(lines, 1, i - 1) \o SubSeq(lines, i + 1, Len(lines))] :
              i \in 1..Len(lines)}
    \cup {[kind |-> "extra",
           lines |-> Append(lines, MakeEntry(input, now, EnvKeyId, SeedOf(1),
                                             Replay(lines, Len(lines))))] :
              input \in {other \in ValidInputs :
                            \A k \in 1..Len(lines) :
                                lines[k].audited_state_hash # other.audited_state_hash}}
    \cup {[kind |-> "duplicated", lines |-> Append(lines, lines[i])] : i \in 1..Len(lines)}
    \cup {[kind |-> "reordered", lines |-> [lines EXCEPT ![i] = lines[j], ![j] = lines[i]]] :
              i \in 1..Len(lines), j \in 1..Len(lines)}

DamageLedger ==
    /\ snapshotFile # Absent
    /\ edit = NoEdit
    /\ ~repairOut.called
    /\ \E damaged \in Damaged(ledger) :
           /\ damaged.lines # ledger
           /\ ledger' = damaged.lines
           /\ edit' = [kind |-> damaged.kind, line |-> 0, other |-> 0, field |-> ""]
    /\ UNCHANGED <<original, index, merkleFile, keyVars, now, writers, epochVars, guardVars,
                   writeOut, lockVars, repairOut, walVars, toolVars, extraVars>>

RepairLedgerData ==
    /\ snapshotFile # Absent
    /\ ~repairOut.called
    /\ LET result == repair_ledger_data(ledger, snapshotFile)
       IN /\ ledger' = result.lines
          /\ repairOut' = [called |-> TRUE, raised |-> result.raised,
                           ledger_repaired |-> result.ledger_repaired,
                           before |-> ledger]
    /\ UNCHANGED <<index, merkleFile, keyVars, now, writers, editVars, epochVars, guardVars,
                   writeOut, lockVars, walVars, toolVars, extraVars>>

NextLedgerRepair == TrustedWrite \/ TrustSnapshot \/ DamageLedger \/ RepairLedgerData

SpecLedgerRepair == Init /\ [][NextLedgerRepair]_vars

\* C37: after repair_ledger_data returns, the ledger file's entry sequence
\* equals the trusted snapshot's entry sequence: any difference between the
\* current ledger and the snapshot (changed, missing, extra, duplicated or
\* reordered entries) is detected as divergence and repaired.
C37_RepairedToSnapshot ==
    repairOut.called =>
        /\ repairOut.raised = ""
        /\ ledger = snapshotFile.ledger_lines
        /\ repairOut.before # snapshotFile.ledger_lines => repairOut.ledger_repaired

(***************************************************************************)
(* Receipts written after a compaction                                     *)
(***************************************************************************)
\* write_receipt goes on appending to ledger_path once compact has run
WriteAfterCompact ==
    /\ compactOut.called
    /\ Len(ledger) <= MaxCompactEntries
    /\ WriteReceipt

NextCompactThenWrite == CompactWrite \/ Compact \/ WriteAfterCompact

SpecCompactThenWrite == Init /\ [][NextCompactThenWrite]_vars

\* C38: after LedgerCompactor.compact, the persisted merkle state still agrees
\* with the ledger at ledger_path that write_receipt continues to append to:
\* the next write_receipt produces an entry whose merkle_root matches a replay
\* of that ledger, and the persisted entry_count equals that ledger's entry
\* count.
C38_StateAgreesAfterCompact ==
    (compactOut.called /\ compactOut.raised = "") =>
        /\ merkleFile.entry_count = Len(ledger)
        /\ Len(ledger) > Len(compactOut.before[1]) =>
               ledger[Len(ledger)].merkle_root = MerkleRoot(Replay(ledger, Len(ledger)))

(***************************************************************************)
(* Roots of different leaf sequences.  A caller may hand apply_leaf any    *)
(* 64-character string, the digest of an inner node of the tree included.  *)
(***************************************************************************)
ChosenLeaves ==
    {<<"hex64", "x">>, <<"hex64", "y">>,
     _hash_node(_hash_leaf(<<"hex64", "x">>), _hash_leaf(<<"hex64", "y">>))}

ApplyChosen ==
    /\ Len(leaves) < MaxChosenLeaves
    /\ \E leaf_hash \in ChosenLeaves :
           /\ leaves' = Append(leaves, leaf_hash)
           /\ merkleFile' = ApplyLeaf(merkleFile, leaf_hash)
    /\ UNCHANGED <<ledger, index, keyVars, now, writers, editVars, epochVars, guardVars,
                   writeOut, lockVars, repairOut, walVars, rotateOut, snapshotFile, restore,
                   compactOut, canon, extraVars>>

NextInjective == ApplyChosen

SpecInjective == Init /\ [][NextInjective]_vars

\* MerkleState.empty() after apply_leaf of ls[1], ..., ls[n]
RECURSIVE ApplyAll(_, _)
ApplyAll(ls, n) == IF n = 0 THEN MerkleEmpty ELSE ApplyLeaf(ApplyAll(ls, n - 1), ls[n])

ChosenSequences == UNION {[1..n -> ChosenLeaves] : n \in 0..MaxChosenLeaves}

\* C39: treating SHA-256 as collision-free, MerkleState roots are injective in
\* the leaf sequence: two different sequences of entry hashes (of equal or
\* different length, including the empty sequence) never produce the same root.
C39_RootsInjective ==
    \A other \in ChosenSequences :
        other # leaves => MerkleRoot(ApplyAll(other, Len(other))) # MerkleRoot(merkleFile)

\* two leaves are applied, and the one-leaf sequence holding the digest of
\* their parent node has another root
C39_Witness ==
    /\ leaves = <<<<"hex64", "x">>, <<"hex64", "y">>>>
    /\ merkleFile.entry_count = 2
    /\ MerkleRoot(merkleFile) \in ChosenLeaves
    /\ MerkleRoot(ApplyAll(<<MerkleRoot(merkleFile)>>, 1)) # MerkleRoot(merkleFile)

====
